---- MODULE Spec2Model ----
(***************************************************************************)
(* Model of the order stock adjustment of the Dona Brookies backend        *)
(* (src/api/index.js; src/unnamed/part_000 is an older snapshot whose      *)
(* updateStockForOrder and update-stock handler are line-for-line the      *)
(* same).                                                                  *)
(*                                                                         *)
(* JavaScript values are records [t, v]: t is the result of typeof and,    *)
(* for a number, v counts HALVES, so Num(3) is 1.5 and N(3) is the integer *)
(* 3.  Subtraction, comparison with 0 and Math.max(0, .) are the same on   *)
(* halves as on the numbers they stand for; only integrality and array     *)
(* indexing look at the scale.  NaN, Infinity and numeric strings are      *)
(* outside the value domain.                                               *)
(*                                                                         *)
(* The Supabase tables are the shared state.  A request is cut at its      *)
(* awaits: each action is one store call taking effect together with the   *)
(* synchronous code that runs up to the next await (or to the response).   *)
(***************************************************************************)
EXTENDS Integers, Sequences, FiniteSets, TLC

\* ------------------------------------------------------------- bounds
\* lines (raw items) in one request body
MaxLines == 2
\* sabores (variants) of the first product of the catalogue
MaxSabores == 2
\* POST /api/products requests in one run
MaxSaves == 2
\* requests to the other endpoints in one run
MaxRequests == 2

\* ------------------------------------------------------ JavaScript values
Num(k) == [t |-> "number", v |-> k]
N(i) == Num(2 * i)
Undefined == [t |-> "undefined", v |-> 0]
JsString == [t |-> "string", v |-> 1]

typeof(x) == x.t

IsInteger(x) == x.t = "number" /\ x.v % 2 = 0

\* ToBoolean: 0 and undefined are falsy, a non-empty string is truthy
Truthy(x) ==
    CASE x.t = "number" -> x.v # 0
      [] x.t = "undefined" -> FALSE
      [] OTHER -> TRUE

\* x || 0
OrZero(x) == IF Truthy(x) THEN x ELSE Num(0)

\* a - b on numbers
Minus(a, b) == Num(a.v - b.v)

\* Math.max(0, x)
MathMax0(x) == IF x.v > 0 THEN x ELSE Num(0)

\* arr.at(idx): a negative idx counts from the end
IndexOf_at(arr, idx) ==
    IF IsInteger(idx) /\ idx.v \div 2 >= 0 /\ idx.v \div 2 < Len(arr)
    THEN idx.v \div 2 + 1
    ELSE IF IsInteger(idx) /\ idx.v < 0 /\ Len(arr) + idx.v \div 2 >= 0
    THEN Len(arr) + idx.v \div 2 + 1
    ELSE 0

\* arr[idx]: the position of that element in the 1-based sequence arr, or 0
\* when arr[idx] is undefined (idx no integer, negative, or >= arr.length)
IndexOf(arr, idx) ==
    IF IsInteger(idx) /\ idx.v \div 2 >= 0 /\ idx.v \div 2 < Len(arr)
    THEN idx.v \div 2 + 1
    ELSE 0

Range(s) == {s[i] : i \in DOMAIN s}

SeqsUpTo(S, lo, hi) == UNION {[1..n -> S] : n \in lo..hi}

\* ------------------------------------------------------ normalizeProducts
\* the comparator of the sabores sort: available first
compareSabores(a, b) ==
    LET aStock == OrZero(a.quantity)
        bStock == OrZero(b.quantity)
    IN  IF aStock.v > 0 /\ bStock = Num(0) THEN -1
        ELSE IF aStock = Num(0) /\ bStock.v > 0 THEN 1
        ELSE 0

\* Array.prototype.sort as the engine runs it on an array shorter than 64
\* elements: the leading run is found (and reversed when strictly
\* descending), then every later element is put in place by binary insertion
RunDescends(s) == compareSabores(s[2], s[1]) < 0

\* the length of the leading run of s, for Len(s) >= 2
RunLength(s) ==
    LET Continues(r) ==
            \A idx \in 3..r :
                IF RunDescends(s) THEN compareSabores(s[idx], s[idx - 1]) < 0
                ELSE compareSabores(s[idx], s[idx - 1]) >= 0
    IN  CHOOSE r \in 2..Len(s) :
            Continues(r) /\ \A r2 \in (r + 1)..Len(s) : ~Continues(r2)

Reverse(s) == [i \in 1..Len(s) |-> s[Len(s) + 1 - i]]

\* the 0-based position of pivot among a[left..right-1]
RECURSIVE BinarySearch(_, _, _, _)
BinarySearch(a, pivot, left, right) ==
    IF left >= right THEN left
    ELSE LET mid == left + ((right - left) \div 2)
         IN  IF compareSabores(pivot, a[mid + 1]) < 0
             THEN BinarySearch(a, pivot, left, mid)
             ELSE BinarySearch(a, pivot, mid + 1, right)

\* a with its element at 0-based index start moved into the sorted prefix
BinaryInsert(a, start) ==
    LET pivot == a[start + 1]
        left == BinarySearch(a, pivot, 0, start)
    IN  SubSeq(a, 1, left) \o <<pivot>> \o SubSeq(a, left + 1, start)
        \o SubSeq(a, start + 2, Len(a))

RECURSIVE BinaryInsertionSort(_, _)
BinaryInsertionSort(a, start) ==
    IF start >= Len(a) THEN a
    ELSE BinaryInsertionSort(BinaryInsert(a, start), start + 1)

\* [...product.sabores].sort(compare)
SortSabores(s) ==
    IF Len(s) < 2 THEN s
    ELSE LET r == RunLength(s)
             run == IF RunDescends(s) THEN Reverse(SubSeq(s, 1, r))
                    ELSE SubSeq(s, 1, r)
         IN  BinaryInsertionSort(run \o SubSeq(s, r + 1, Len(s)), r)

\* one sabor of the output: quantity: sabor.quantity || 0
normalizeSabor(sabor) ==
    [name |-> sabor.name, quantity |-> OrZero(sabor.quantity)]

\* the sabores branch of normalizeProducts (the products of this model have
\* a sabores array and no legacy colors array)
normalizeProduct(product) ==
    [product EXCEPT !.sabores =
        [i \in 1..Len(product.sabores) |->
            normalizeSabor(SortSabores(product.sabores)[i])]]

normalizeProducts(products) ==
    [i \in 1..Len(products) |-> normalizeProduct(products[i])]

\* ------------------------------------------------------------ the store
\* what the admin posts: title stands for title, price, description, status
\* and display_order; name for name, image, description
SaborNames == <<"a", "b", "c", "d">>
Titles == <<"P1", "P2">>
QuantityInputs == {Undefined, N(0), N(1), N(2)}

\* the posted sabores arrays of n elements
SaboresInputs(n) ==
    {[i \in 1..n |-> [name |-> SaborNames[i], quantity |-> q[i]]] :
        q \in [1..n -> QuantityInputs]}

\* the posted catalogues: the first product has up to MaxSabores sabores,
\* a second product, when there is one, a single sabor
AdminInputs ==
    LET first == {[title |-> Titles[1], category |-> "brownie", sabores |-> s] :
                    s \in UNION {SaboresInputs(n) : n \in 1..MaxSabores}}
        second == {[title |-> Titles[2], category |-> "brownie", sabores |-> s] : s \in SaboresInputs(1)}
    IN  {<<f>> : f \in first} \cup {<<f, g>> : f \in first, g \in second}

\* POST /api/products: the rows inserted for the posted products; the id
\* column is assigned by the table, serially from firstId
productsToInsert(posted, firstId) ==
    LET normalizedProducts == normalizeProducts(posted)
    IN  [id \in firstId..(firstId + Len(normalizedProducts) - 1) |->
            [id |-> id,
             title |-> normalizedProducts[id - firstId + 1].title,
             category |-> normalizedProducts[id - firstId + 1].category,
             sabores |-> normalizedProducts[id - firstId + 1].sabores]]

\* the catalogues a first admin save leaves in the products table
Catalogues == {productsToInsert(posted, 1) : posted \in AdminInputs}

\* ------------------------------------------------------------ requests
\* the two requests in flight at most (two orders arriving together)
Procs == {1, 2}

\* a raw item of req.body.items; obj = FALSE is a null (falsy) item
Item(id, saborIndex, quantity) ==
    [obj |-> TRUE, id |-> id, saborIndex |-> saborIndex, quantity |-> quantity]
NullItem == [obj |-> FALSE, id |-> Undefined, saborIndex |-> Undefined,
             quantity |-> Undefined]

\* the lines that pass the filter of the handler: the two sabores of product
\* 1 and the sabor of product 2, a quantity of 1 or 2; a product id that is
\* absent (3) or no integer (1.5); an index that is negative, no integer
\* (0.5) or past the end; a quantity that is no integer (0.5)
NumericItems ==
    {Item(N(1), N(0), N(1)), Item(N(1), N(1), N(1)), Item(N(2), N(0), N(1)),
     Item(N(1), N(0), N(2)),
     Item(N(3), N(0), N(1)), Item(Num(3), N(0), N(1)),
     Item(N(1), N(-1), N(1)), Item(N(1), Num(1), N(1)),
     Item(N(1), N(MaxSabores), N(1)),
     Item(N(1), N(0), Num(1))}

\* items with a field that is not a number, or a quantity that is not > 0
OddItems ==
    {NullItem,
     Item(JsString, N(0), N(1)), Item(N(1), JsString, N(1)),
     Item(N(1), N(0), JsString), Item(N(1), N(0), Undefined),
     Item(N(1), N(0), N(0)), Item(N(1), N(0), N(-1))}

RawItems == NumericItems \cup OddItems

\* req.body: items is an array of raw items, or is no array at all
Body(isArray, its) == [isArray |-> isArray, items |-> its]
RequestBodies ==
    {Body(FALSE, <<>>)} \cup {Body(TRUE, its) : its \in SeqsUpTo(RawItems, 0, MaxLines)}

\* ------------------------------------------------------------- state
VARIABLES
    products,         \* table products: id -> row
    history,          \* table stock_updates_history, in insertion order
    pc,               \* per request: the await it is suspended at
    items,            \* argument of updateStockForOrder (validItems)
    currentProducts,  \* rows returned by the bulk select
    productsMap,      \* working copy: id -> product
    updates,          \* the updates list
    stockUpdates,     \* the audit records to insert
    productsToUpdate, \* argument of the bulk upsert
    result,           \* how updateStockForOrder ended
    response,         \* what the handler sent
    calls,            \* store calls of the request so far, with outcome
    nextId,           \* the next value of the serial id column of products
    savePc,           \* POST /api/products: the await it is suspended at
    posted,           \* POST /api/products: req.body.products
    saveResponse,     \* POST /api/products: status of the last response
    saves,            \* POST /api/products requests received
    listed,           \* GET /api/products: products of the last response
    lastRead,         \* the last GET handler and the outcome of its select
    categories,       \* table categories: the ids of its rows
    coupons,          \* table coupons: its rows
    salesHistory,     \* table sales_history, in insertion order
    request,          \* the request to one of the other endpoints
    reply,            \* the last response of one of the other endpoints
    accesses,         \* store calls of that request so far, with outcome
    served            \* requests to the other endpoints received

locals == <<items, currentProducts, productsMap, updates, stockUpdates,
            productsToUpdate, result, response, calls>>
adminVars == <<nextId, savePc, posted, saveResponse, saves, listed, lastRead>>
officeVars == <<categories, coupons, salesHistory, request, reply, accesses,
                served>>
vars == <<products, history, pc, locals, adminVars, officeVars>>

NoResult == [kind |-> "none", message |-> "", updates |-> 0, products |-> 0]
NoResponse == [status |-> 0, success |-> FALSE, message |-> "",
               updates |-> 0, products |-> 0, needs_manual_check |-> FALSE]

\* return { success: true, message [, updates, products] }; an absent count
\* is written -1
Returned(message, nUpdates, nProducts) ==
    [kind |-> "return", message |-> message, updates |-> nUpdates,
     products |-> nProducts]

\* throw new Error(message), rethrown by the catch of updateStockForOrder
Thrown(message) ==
    [kind |-> "throw", message |-> message, updates |-> -1, products |-> -1]

Call(op, outcome) == [op |-> op, outcome |-> outcome]

\* no GET /api/products has been answered
NotListed == <<[id |-> 0, title |-> "", category |-> "", sabores |-> <<>>]>>

\* no order request has been received
Idle ==
    /\ pc = [p \in Procs |-> "idle"]
    /\ items = [p \in Procs |-> <<>>]
    /\ currentProducts = [p \in Procs |-> <<>>]
    /\ productsMap = [p \in Procs |-> <<>>]
    /\ updates = [p \in Procs |-> <<>>]
    /\ stockUpdates = [p \in Procs |-> <<>>]
    /\ productsToUpdate = [p \in Procs |-> <<>>]
    /\ result = [p \in Procs |-> NoResult]
    /\ response = [p \in Procs |-> NoResponse]
    /\ calls = [p \in Procs |-> <<>>]

\* the select of a GET handler returned: rows ("ok"), an error whose message
\* says the table does not exist, or another error
Read(endpoint, outcome) == [endpoint |-> endpoint, outcome |-> outcome]

NoRead == Read("", "none")

\* a request to one of the other endpoints: the Authorization header, what
\* the body names, and the await the handler is suspended at
Request(endpoint, auth, arg, step) ==
    [endpoint |-> endpoint, auth |-> auth, arg |-> arg, step |-> step]

NoRequest == Request("", "", "", "done")

\* res.status(status).json(...): success is the success field (absent:
\* FALSE), data the list of ids of a GET response
Reply(status, success, message, data) ==
    [status |-> status, success |-> success, message |-> message, data |-> data]

NoReply == Reply(0, FALSE, "", <<>>)

\* none of the other endpoints has been called
NoOffice ==
    /\ request = NoRequest
    /\ reply = NoReply
    /\ accesses = <<>>
    /\ served = 0

\* no request has been received
Unvisited ==
    /\ NoOffice
    /\ lastRead = NoRead
    /\ history = <<>>
    /\ nextId = Cardinality(DOMAIN products) + 1
    /\ savePc = "idle"
    /\ posted = <<>>
    /\ saveResponse = 0
    /\ saves = 0
    /\ listed = NotListed
    /\ Idle

\* no request has been received and the other tables are empty
Quiet ==
    /\ categories = {}
    /\ coupons = {}
    /\ salesHistory = <<>>
    /\ Unvisited

\* the products table as a first admin save left it
Init == products \in Catalogues /\ Quiet

\* ------------------------------------------------- updateStockForOrder
\* [...new Set(items.map(item => item.id))]
productIds(its) == {its[i].id : i \in DOMAIN its}

\* .from('products').select('*').in('id', productIds): the rows matched
SelectIn(table, ids) == {table[k] : k \in {j \in DOMAIN table : N(j) \in ids}}

\* the orders in which the store may return a set of rows (no ORDER BY)
Orders(S) == {s \in [1..Cardinality(S) -> S] : Range(s) = S}

\* a working copy that keeps only the id and the sabores of each row
buildMap_saboresOnly(rows) ==
    [k \in {rows[i].id : i \in DOMAIN rows} |->
        [rows[CHOOSE i \in DOMAIN rows : rows[i].id = k] EXCEPT !.title = "", !.category = ""]]

\* productsMap.set(product.id, { ...product }) for each fetched row
buildMap(rows) ==
    [k \in {rows[i].id : i \in DOMAIN rows} |->
        rows[CHOOSE i \in DOMAIN rows :
                rows[i].id = k /\ \A j \in DOMAIN rows : rows[j].id = k => j <= i]]

\* productsMap.get(orderItem.id) is a product
MapHas(map, key) == \E k \in DOMAIN map : N(k) = key
MapKey(map, key) == CHOOSE k \in DOMAIN map : N(k) = key

\* product && product.sabores && product.sabores[orderItem.saborIndex]
Resolves(map, orderItem) ==
    /\ MapHas(map, orderItem.id)
    /\ IndexOf(map[MapKey(map, orderItem.id)].sabores, orderItem.saborIndex) # 0

\* the subtraction without the clamp at 0
NewQuantity_unclamped(oldQuantity, ordered) == Minus(oldQuantity, ordered)

\* Math.max(0, oldQuantity - orderItem.quantity)
NewQuantity(oldQuantity, ordered) == MathMax0(Minus(oldQuantity, ordered))

\* a body that takes only the first line on each sabor: a line whose
\* sabor already has an audit record is passed over
ProcessItem_firstLineOnly(st, orderItem) ==
    IF ~Resolves(st.map, orderItem) THEN st
    ELSE
        LET k == MapKey(st.map, orderItem.id)
            product == st.map[k]
            i == IndexOf(product.sabores, orderItem.saborIndex)
            sabor == product.sabores[i]
            oldQuantity == OrZero(sabor.quantity)
            newQuantity == NewQuantity(oldQuantity, orderItem.quantity)
            seen == \E n \in DOMAIN st.stockUpdates :
                        /\ st.stockUpdates[n].product_id = product.id
                        /\ st.stockUpdates[n].sabor_index = orderItem.saborIndex
        IN  IF oldQuantity = newQuantity \/ seen THEN st
            ELSE [map |-> [st.map EXCEPT ![k].sabores[i].quantity = newQuantity],
                  updates |-> Append(st.updates,
                      [productId |-> product.id, saborName |-> sabor.name,
                       oldQuantity |-> oldQuantity, newQuantity |-> newQuantity,
                       quantityOrdered |-> orderItem.quantity]),
                  stockUpdates |-> Append(st.stockUpdates,
                      [product_id |-> product.id,
                       sabor_index |-> orderItem.saborIndex,
                       old_stock |-> oldQuantity, new_stock |-> newQuantity,
                       quantity_ordered |-> orderItem.quantity,
                       product_title |-> product.title,
                       sabor_name |-> sabor.name])]

\* the body of items.forEach for one orderItem; st is the working state
\* [map, updates, stockUpdates]
ProcessItem(st, orderItem) ==
    IF ~Resolves(st.map, orderItem) THEN st
    ELSE
        LET k == MapKey(st.map, orderItem.id)
            product == st.map[k]
            i == IndexOf(product.sabores, orderItem.saborIndex)
            sabor == product.sabores[i]
            oldQuantity == OrZero(sabor.quantity)
            newQuantity == NewQuantity(oldQuantity, orderItem.quantity)
        IN  IF oldQuantity = newQuantity THEN st
            ELSE [map |-> [st.map EXCEPT ![k].sabores[i].quantity = newQuantity],
                  updates |-> Append(st.updates,
                      [productId |-> product.id, saborName |-> sabor.name,
                       oldQuantity |-> oldQuantity, newQuantity |-> newQuantity,
                       quantityOrdered |-> orderItem.quantity]),
                  stockUpdates |-> Append(st.stockUpdates,
                      [product_id |-> product.id,
                       sabor_index |-> orderItem.saborIndex,
                       old_stock |-> oldQuantity, new_stock |-> newQuantity,
                       quantity_ordered |-> orderItem.quantity,
                       product_title |-> product.title,
                       sabor_name |-> sabor.name])]

\* a loop that ends at the first line whose product is not in the map
RECURSIVE ProcessItems_stopsAtUnknown(_, _)
ProcessItems_stopsAtUnknown(st, its) ==
    IF Len(its) = 0 \/ ~MapHas(st.map, Head(its).id) THEN st
    ELSE ProcessItems_stopsAtUnknown(ProcessItem(st, Head(its)), Tail(its))

\* items.forEach(...), in input order: the state after the first line is
\* computed once (s), then the rest of the lines are applied to it
RECURSIVE ProcessItems(_, _)
ProcessItems(st, its) ==
    IF Len(its) = 0 THEN st
    ELSE CHOOSE r \in {ProcessItems(s, Tail(its)) :
                            s \in {ProcessItem(st, Head(its))}} : TRUE

\* the in-memory phase: map built from the rows, then every line applied
Compute(rows, its) ==
    ProcessItems([map |-> buildMap(rows), updates |-> <<>>,
                  stockUpdates |-> <<>>], its)

\* the ids of the map in insertion order (first occurrence in rows)
MapOrder(rows) ==
    LET First(i) == \A j \in 1..(i - 1) : rows[j].id # rows[i].id
        idx == SelectSeq([i \in 1..Len(rows) |-> i], First)
    IN  [n \in 1..Len(idx) |-> rows[idx[n]].id]

\* the whole working copy, without the filter
FilterUpdated_none(map, order, ups) == [n \in 1..Len(order) |-> map[order[n]]]

\* one row for each update instead of one for each updated product
FilterUpdated_perUpdate(map, order, ups) ==
    [n \in 1..Len(ups) |-> map[ups[n].productId]]

\* Array.from(productsMap.values()).filter(product =>
\*     updates.some(update => update.productId === product.id))
FilterUpdated(map, order, ups) ==
    LET Updated(product) == \E j \in DOMAIN ups : ups[j].productId = product.id
    IN  SelectSeq([n \in 1..Len(order) |-> map[order[n]]], Updated)

\* an upsert that leaves an existing row alone (ignoreDuplicates)
Upsert_ignoreDuplicates(table, rows) ==
    [k \in DOMAIN table \cup {rows[i].id : i \in DOMAIN rows} |->
        IF k \in DOMAIN table THEN table[k]
        ELSE rows[CHOOSE i \in DOMAIN rows : rows[i].id = k]]

\* a write that never raises a stored quantity: for a row that exists, each
\* sabor keeps the lower of the stored and the written quantity
Upsert_neverRaises(table, rows) ==
    [k \in DOMAIN table \cup {rows[i].id : i \in DOMAIN rows} |->
        IF \E i \in DOMAIN rows : rows[i].id = k
        THEN LET row == rows[CHOOSE i \in DOMAIN rows : rows[i].id = k]
             IN  IF k \in DOMAIN table /\ Len(table[k].sabores) = Len(row.sabores)
                 THEN [row EXCEPT !.sabores =
                        [i \in DOMAIN row.sabores |->
                            IF OrZero(table[k].sabores[i].quantity).v
                                    < OrZero(row.sabores[i].quantity).v
                            THEN table[k].sabores[i] ELSE row.sabores[i]]]
                 ELSE row
        ELSE table[k]]

\* .from('products').upsert(rows): insert, or replace the row of the same id
Upsert(table, rows) ==
    [k \in DOMAIN table \cup {rows[i].id : i \in DOMAIN rows} |->
        IF \E i \in DOMAIN rows : rows[i].id = k
        THEN rows[CHOOSE i \in DOMAIN rows :
                    rows[i].id = k /\ \A j \in DOMAIN rows : rows[j].id = k => j <= i]
        ELSE table[k]]

\* a write that keeps one audit row per sabor: the new row takes the place of
\* the earlier row of the same product and index
InsertHistory_latestOnly(table, rows) ==
    LET Superseded(r) ==
            \E i \in DOMAIN rows : /\ rows[i].product_id = r.product_id
                                    /\ rows[i].sabor_index = r.sabor_index
        Kept(r) == ~Superseded(r)
    IN  SelectSeq(table, Kept) \o rows

\* .from('stock_updates_history').insert(rows) (updated_at is left out)
InsertHistory(table, rows) == table \o rows

\* ------------------------------------------- POST /api/orders/update-stock
\* the filter of the handler
IsValidItem(item) ==
    /\ item.obj
    /\ typeof(item.id) = "number"
    /\ typeof(item.saborIndex) = "number"
    /\ typeof(item.quantity) = "number"
    /\ item.quantity.v > 0

validItems(body) == SelectSeq(body.items, IsValidItem)

BadRequest(message) ==
    [status |-> 400, success |-> FALSE, message |-> message, updates |-> -1,
     products |-> -1, needs_manual_check |-> FALSE]

\* a catch block that reports the failure
Respond_reportsFailure(res) ==
    IF res.kind = "return"
    THEN [status |-> 200, success |-> TRUE, message |-> res.message,
          updates |-> res.updates, products |-> res.products,
          needs_manual_check |-> FALSE]
    ELSE [status |-> 500, success |-> FALSE, message |-> res.message,
          updates |-> -1, products |-> -1, needs_manual_check |-> TRUE]

\* res.json(result) after a return; the catch block after a throw
Respond(res) ==
    IF res.kind = "return"
    THEN [status |-> 200, success |-> TRUE, message |-> res.message,
          updates |-> res.updates, products |-> res.products,
          needs_manual_check |-> FALSE]
    ELSE [status |-> 200, success |-> TRUE,
          message |-> "Pedido processado, mas estoque pode precisar de verificacao manual",
          updates |-> -1, products |-> -1, needs_manual_check |-> TRUE]

\* updateStockForOrder ends with res and the handler responds
Ends(p, res) ==
    /\ result' = [result EXCEPT ![p] = res]
    /\ response' = [response EXCEPT ![p] = Respond(res)]
    /\ pc' = [pc EXCEPT ![p] = "done"]

\* updateStockForOrder suspends at the await of a store call
Awaits(p, op) ==
    /\ pc' = [pc EXCEPT ![p] = op]
    /\ UNCHANGED <<result, response>>

\* a list that is not empty goes straight to the bulk select
updateStockForOrder_noEmptyCheck(p, its) ==
    /\ items' = [items EXCEPT ![p] = its]
    /\ Awaits(p, "select")

\* the entry of updateStockForOrder, up to its first await: an empty list
\* returns at once, any other list issues the bulk select
updateStockForOrder(p, its) ==
    /\ items' = [items EXCEPT ![p] = its]
    /\ IF Len(its) = 0
       THEN Ends(p, Returned("Nenhum item para atualizar", -1, -1))
       ELSE Awaits(p, "select")

\* the handler up to its first await: validation, then the entry of
\* updateStockForOrder
PostUpdateStock(p, body) ==
    /\ pc[p] = "idle"
    /\ UNCHANGED <<adminVars, officeVars>>
    /\ UNCHANGED <<products, history, currentProducts, productsMap, updates,
                   stockUpdates, productsToUpdate, calls>>
    /\ IF ~body.isArray \/ Len(body.items) = 0
       THEN /\ response' = [response EXCEPT ![p] =
                    BadRequest("Nenhum item para atualizar estoque")]
            /\ pc' = [pc EXCEPT ![p] = "done"]
            /\ UNCHANGED <<items, result>>
       ELSE IF Len(validItems(body)) = 0
       THEN /\ response' = [response EXCEPT ![p] =
                    BadRequest("Nenhum item valido para atualizar estoque")]
            /\ pc' = [pc EXCEPT ![p] = "done"]
            /\ UNCHANGED <<items, result>>
       ELSE updateStockForOrder(p, validItems(body))

Logged(p, op, outcome) ==
    calls' = [calls EXCEPT ![p] = Append(@, Call(op, outcome))]

\* an empty result of the select taken for a failure
NoneFound_throws == Thrown("Nenhum produto encontrado para atualizar")

\* the outcome of updateStockForOrder when the select returns no row
NoneFound == Returned("Nenhum produto encontrado para atualizar", -1, -1)

\* the bulk select returns rows; the code runs on to the upsert or to a return
SelectOk(p) ==
    /\ pc[p] = "select"
    /\ UNCHANGED <<adminVars, officeVars>>
    /\ \E rows \in Orders(SelectIn(products, productIds(items[p]))) :
        \E st \in {Compute(rows, items[p])} :
        LET toUpdate == FilterUpdated(st.map, MapOrder(rows), st.updates)
        IN  /\ currentProducts' = [currentProducts EXCEPT ![p] = rows]
            /\ IF Len(rows) = 0
               THEN /\ Ends(p, NoneFound)
                    /\ UNCHANGED <<productsMap, updates, stockUpdates, productsToUpdate>>
               ELSE /\ productsMap' = [productsMap EXCEPT ![p] = st.map]
                    /\ updates' = [updates EXCEPT ![p] = st.updates]
                    /\ stockUpdates' = [stockUpdates EXCEPT ![p] = st.stockUpdates]
                    /\ IF Len(st.updates) = 0
                       THEN /\ Ends(p, Returned("Nenhuma atualizacao de estoque necessaria", -1, -1))
                            /\ UNCHANGED productsToUpdate
                       ELSE /\ productsToUpdate' = [productsToUpdate EXCEPT ![p] = toUpdate]
                            /\ Awaits(p, "upsert")
    /\ Logged(p, "select", "ok")
    /\ UNCHANGED <<products, history, items>>

\* a fetchError taken for an empty result
SelectError_swallowed(p) ==
    /\ pc[p] = "select"
    /\ UNCHANGED <<adminVars, officeVars>>
    /\ Ends(p, Returned("Nenhum produto encontrado para atualizar", -1, -1))
    /\ Logged(p, "select", "error")
    /\ UNCHANGED <<products, history, items, currentProducts, productsMap,
                   updates, stockUpdates, productsToUpdate>>

\* the bulk select returns fetchError: throw
SelectError(p) ==
    /\ pc[p] = "select"
    /\ UNCHANGED <<adminVars, officeVars>>
    /\ Ends(p, Thrown("Erro ao buscar produtos"))
    /\ Logged(p, "select", "error")
    /\ UNCHANGED <<products, history, items, currentProducts, productsMap,
                   updates, stockUpdates, productsToUpdate>>

\* what follows a successful upsert: the history insert when there are
\* audit records, else the final return
\* the return at the end of updateStockForOrder
FinalResult_swapped(p) ==
    Returned("Estoque atualizado", Len(productsToUpdate[p]), Len(updates[p]))

FinalResult(p) ==
    Returned("Estoque atualizado", Len(updates[p]), Len(productsToUpdate[p]))

AfterUpsert(p) ==
    IF Len(stockUpdates[p]) > 0
    THEN Awaits(p, "insert")
    ELSE Ends(p, FinalResult(p))

\* a write that updates the rows that still exist and inserts none
UpsertOk_updatesExisting(p) ==
    /\ pc[p] = "upsert"
    /\ UNCHANGED <<adminVars, officeVars>>
    /\ products' = [k \in DOMAIN products |->
                        Upsert(products, productsToUpdate[p])[k]]
    /\ AfterUpsert(p)
    /\ Logged(p, "upsert", "ok")
    /\ UNCHANGED <<history, items, currentProducts, productsMap, updates,
                   stockUpdates, productsToUpdate>>

\* the store applies the bulk upsert
UpsertOk(p) ==
    /\ pc[p] = "upsert"
    /\ UNCHANGED <<adminVars, officeVars>>
    /\ products' = Upsert(products, productsToUpdate[p])
    /\ AfterUpsert(p)
    /\ Logged(p, "upsert", "ok")
    /\ UNCHANGED <<history, items, currentProducts, productsMap, updates,
                   stockUpdates, productsToUpdate>>

\* an updateError that is not looked at: on to the history insert
UpsertError_unchecked(p) ==
    /\ pc[p] = "upsert"
    /\ UNCHANGED <<adminVars, officeVars>>
    /\ Awaits(p, "insert")
    /\ Logged(p, "upsert", "error")
    /\ UNCHANGED <<products, history, items, currentProducts, productsMap,
                   updates, stockUpdates, productsToUpdate>>

\* a rejected upsert that is issued again
UpsertError_retries(p) ==
    /\ pc[p] = "upsert"
    /\ UNCHANGED <<adminVars, officeVars>>
    /\ Awaits(p, "upsert")
    /\ Logged(p, "upsert", "error")
    /\ UNCHANGED <<products, history, items, currentProducts, productsMap,
                   updates, stockUpdates, productsToUpdate>>

\* the store rejects the bulk upsert (updateError): throw
UpsertError(p) ==
    /\ pc[p] = "upsert"
    /\ UNCHANGED <<adminVars, officeVars>>
    /\ Ends(p, Thrown("Erro ao atualizar produtos"))
    /\ Logged(p, "upsert", "error")
    /\ UNCHANGED <<products, history, items, currentProducts, productsMap,
                   updates, stockUpdates, productsToUpdate>>

\* the history insert succeeds
InsertOk(p) ==
    /\ pc[p] = "insert"
    /\ UNCHANGED <<adminVars, officeVars>>
    /\ history' = InsertHistory(history, stockUpdates[p])
    /\ Ends(p, FinalResult(p))
    /\ Logged(p, "insert", "ok")
    /\ UNCHANGED <<products, items, currentProducts, productsMap, updates,
                   stockUpdates, productsToUpdate>>

\* a history failure that reaches the caller
InsertFails_propagates(p) ==
    /\ pc[p] = "insert"
    /\ UNCHANGED <<adminVars, officeVars>>
    /\ \E outcome \in {"error", "throw"} : Logged(p, "insert", outcome)
    /\ Ends(p, Thrown("Erro no historico"))
    /\ UNCHANGED <<products, history, items, currentProducts, productsMap,
                   updates, stockUpdates, productsToUpdate>>

\* the history insert returns historyError or throws: logged only
InsertFails(p) ==
    /\ pc[p] = "insert"
    /\ UNCHANGED <<adminVars, officeVars>>
    /\ \E outcome \in {"error", "throw"} : Logged(p, "insert", outcome)
    /\ Ends(p, FinalResult(p))
    /\ UNCHANGED <<products, history, items, currentProducts, productsMap,
                   updates, stockUpdates, productsToUpdate>>

StoreStep(p) ==
    \/ SelectOk(p)
    \/ SelectError(p)
    \/ UpsertOk(p)
    \/ UpsertError(p)
    \/ InsertOk(p)
    \/ InsertFails(p)

\* one request at a time, any body
Receive(p) ==
    /\ \A q \in Procs : pc[q] = "idle"
    /\ \E body \in RequestBodies : PostUpdateStock(p, body)

Next ==
    \/ Receive(1)
    \/ \E p \in Procs : StoreStep(p)

Spec == Init /\ [][Next]_vars

\* two orders arriving close together: their requests overlap; each body
\* is one line on an existing sabor, for a quantity of 1 or 2
RaceItems ==
    {Item(N(id), N(ix), N(q)) : id \in {1, 2}, ix \in {0, 1}, q \in {1, 2}}
RaceBodies == {Body(TRUE, <<it>>) : it \in RaceItems}

ReceiveConcurrent(p) == \E body \in RaceBodies : PostUpdateStock(p, body)

NextRace ==
    \/ \E p \in Procs : ReceiveConcurrent(p)
    \/ \E p \in Procs : StoreStep(p)

SpecRace == Init /\ [][NextRace]_vars

\* updateStockForOrder called on its own, with any list of lines the
\* handler's filter lets through, the empty list included
DirectItems ==
    {Item(N(1), N(0), N(1)), Item(N(1), N(1), N(2)), Item(N(3), N(0), N(1))}
DirectLists == SeqsUpTo(DirectItems, 0, MaxLines)

Invoke(p) ==
    /\ pc[p] = "idle"
    /\ UNCHANGED <<adminVars, officeVars>>
    /\ \E its \in DirectLists : updateStockForOrder(p, its)
    /\ UNCHANGED <<products, history, currentProducts, productsMap, updates,
                   stockUpdates, productsToUpdate, calls>>

NextFunction ==
    \/ Invoke(1)
    \/ \E p \in Procs : StoreStep(p)

SpecFunction == Init /\ [][NextFunction]_vars

\* every store call that was issued returns
SpecFunctionFair == SpecFunction /\ \A p \in Procs : WF_vars(StoreStep(p))

\* ------------------------------------------------------ the admin's saves
\* the Authorization header of a request: absent, or a string
AuthHeaders ==
    {"", "Bearer authenticated_admin_token", "authenticated_admin_token",
     "Bearer wrong"}

\* authHeader.replace("Bearer ", "")
StripBearer(authHeader) ==
    CASE authHeader = "Bearer authenticated_admin_token" -> "authenticated_admin_token"
      [] authHeader = "Bearer wrong" -> "wrong"
      [] OTHER -> authHeader

checkAuth(token) == token = "authenticated_admin_token"

\* !authHeader || !checkAuth(...) is false
Authorized(authHeader) == authHeader # "" /\ checkAuth(StripBearer(authHeader))

\* what an admin may post as a quantity: nothing, a negative number, zero, a
\* positive number, half a unit
SaveQuantities == {Undefined, N(-1), N(0), N(1), Num(1)}

\* req.body.products: no product, or one product of up to MaxSabores sabores
SaveInputs ==
    {<<>>} \cup
    {<<[title |-> Titles[1], category |-> "brownie",
        sabores |-> [i \in DOMAIN q |-> [name |-> SaborNames[i], quantity |-> q[i]]]]>> :
        q \in UNION {[1..n -> SaveQuantities] : n \in 1..MaxSabores}}

\* POST /api/products up to its first await: 401, or the delete of all rows
\* is issued
PostProductsOf(authHeader, body) ==
    /\ savePc = "idle"
    /\ saves < MaxSaves
    /\ saves' = saves + 1
    /\ IF ~Authorized(authHeader)
       THEN /\ saveResponse' = 401
            /\ UNCHANGED <<savePc, posted>>
       ELSE /\ posted' = body
            /\ savePc' = "delete"
            /\ saveResponse' = 0
    /\ UNCHANGED <<products, history, pc, locals, nextId, listed, lastRead>>

PostProducts ==
    /\ \E authHeader \in AuthHeaders : \E body \in SaveInputs :
        PostProductsOf(authHeader, body)
    /\ UNCHANGED officeVars

\* a delete that takes effect only with the insert that follows it
SaveDeleteOk_keepsRows ==
    /\ savePc = "delete"
    /\ products' = products
    /\ IF Len(normalizeProducts(posted)) > 0
       THEN savePc' = "insert" /\ UNCHANGED <<saveResponse, posted>>
       ELSE savePc' = "idle" /\ saveResponse' = 200 /\ posted' = <<>>
    /\ UNCHANGED <<history, pc, locals, nextId, saves, listed, lastRead,
                   officeVars>>

\* .delete().neq('id', 0) succeeds: every row is gone; with nothing to
\* insert the save is answered
SaveDeleteOk ==
    /\ savePc = "delete"
    /\ products' = <<>>
    /\ IF Len(normalizeProducts(posted)) > 0
       THEN savePc' = "insert" /\ UNCHANGED <<saveResponse, posted>>
       ELSE savePc' = "idle" /\ saveResponse' = 200 /\ posted' = <<>>
    /\ UNCHANGED <<history, pc, locals, nextId, saves, listed, lastRead,
                   officeVars>>

\* the delete returns deleteError: 500
SaveDeleteError ==
    /\ savePc = "delete"
    /\ savePc' = "idle"
    /\ saveResponse' = 500
    /\ posted' = <<>>
    /\ UNCHANGED <<products, history, pc, locals, nextId, saves, listed, lastRead,
                   officeVars>>

\* .insert(productsToInsert) succeeds: the rows get the next ids
SaveInsertOk ==
    /\ savePc = "insert"
    /\ LET rows == productsToInsert(posted, nextId)
       IN  products' = [k \in DOMAIN products \cup DOMAIN rows |->
                            IF k \in DOMAIN rows THEN rows[k] ELSE products[k]]
    /\ nextId' = nextId + Len(posted)
    /\ savePc' = "idle"
    /\ saveResponse' = 200
    /\ posted' = <<>>
    /\ UNCHANGED <<history, pc, locals, saves, listed, lastRead,
                   officeVars>>

\* the insert returns insertError: 500
SaveInsertError ==
    /\ savePc = "insert"
    /\ savePc' = "idle"
    /\ saveResponse' = 500
    /\ posted' = <<>>
    /\ UNCHANGED <<products, history, pc, locals, nextId, saves, listed, lastRead,
                   officeVars>>

\* ------------------------------------------------------ GET /api/products
\* the rows of the table in the order of their ids (display_order is the
\* same for all rows)
RowsById(table) ==
    LET ids == DOMAIN table
        nth(n) == CHOOSE k \in ids : Cardinality({j \in ids : j < k}) = n - 1
    IN  [n \in 1..Cardinality(ids) |-> table[nth(n)]]

\* the hardcoded products returned when the table does not exist
produtosExemploSemTabela ==
    <<[id |-> 1, title |-> "Brownie Tradicional", category |-> "brownie",
       sabores |-> <<[name |-> "Chocolate", quantity |-> N(10)]>>],
      [id |-> 2, title |-> "Cookie de Chocolate", category |-> "cookie",
       sabores |-> <<[name |-> "Chocolate", quantity |-> N(15)]>>]>>

\* the hardcoded product returned when the table is empty
produtosExemplo ==
    <<[id |-> 1, title |-> "Brownie de Teste", category |-> "brownie",
       sabores |-> <<[name |-> "Chocolate", quantity |-> N(5)]>>]>>

\* the select succeeds: the example for an empty table, else the
\* normalized rows
GetProductsOk ==
    /\ listed' = IF DOMAIN products = {} THEN produtosExemplo
                 ELSE normalizeProducts(RowsById(products))
    /\ lastRead' = Read("GET /api/products", "ok")
    /\ UNCHANGED <<products, history, pc, locals, nextId, savePc, posted,
                   saveResponse, saves, officeVars>>

\* the select fails: the example when the message says the table does not
\* exist, else an empty list
GetProductsError ==
    /\ \E doesNotExist \in BOOLEAN :
        /\ listed' = IF doesNotExist THEN produtosExemploSemTabela ELSE <<>>
        /\ lastRead' = Read("GET /api/products",
                            IF doesNotExist THEN "does not exist" ELSE "error")
    /\ UNCHANGED <<products, history, pc, locals, nextId, savePc, posted,
                   saveResponse, saves, officeVars>>

\* an order for one unit of a sabor of a product that a save may have made
SaveOrders ==
    {Body(TRUE, <<Item(N(id), N(ix), N(1))>>) : id \in 1..MaxSaves, ix \in {0, 1}}

\* saves, listings and one order, interleaved at their awaits, over a table
\* that starts empty
InitAdmin == products = <<>> /\ Quiet

NextAdmin ==
    \/ PostProducts
    \/ SaveDeleteOk
    \/ SaveDeleteError
    \/ SaveInsertOk
    \/ SaveInsertError
    \/ GetProductsOk
    \/ GetProductsError
    \/ \E body \in SaveOrders : PostUpdateStock(1, body)
    \/ StoreStep(1)

SpecAdmin == InitAdmin /\ [][NextAdmin]_vars

\* ------------------------------------------- a save racing with an order
\* what the admin posts here: no product, or one product of one or two
\* sabores with one or two units each
RaceSaves ==
    {<<>>} \cup
    {<<[title |-> Titles[1], category |-> "brownie",
        sabores |-> [i \in DOMAIN q |-> [name |-> SaborNames[i], quantity |-> q[i]]]]>> :
        q \in UNION {[1..n -> {N(1), N(2)}] : n \in 1..2}}

PostProductsRace ==
    /\ \E authHeader \in AuthHeaders : \E body \in RaceSaves :
        PostProductsOf(authHeader, body)
    /\ UNCHANGED officeVars

\* saves and one order, interleaved at their awaits, over a table that
\* starts empty
NextSaveRace ==
    \/ PostProductsRace
    \/ SaveDeleteOk
    \/ SaveDeleteError
    \/ SaveInsertOk
    \/ SaveInsertError
    \/ \E body \in SaveOrders : PostUpdateStock(1, body)
    \/ StoreStep(1)

SpecSaveRace == InitAdmin /\ [][NextSaveRace]_vars

\* ------------------------------------------------- normalizeProducts alone
\* normalizeProducts applied to one posted product of up to MaxSabores + 1
\* sabores, with any of the quantities an admin may post
NormalizeInputs ==
    {<<[title |-> Titles[1], category |-> "brownie",
        sabores |-> [i \in DOMAIN q |-> [name |-> SaborNames[i], quantity |-> q[i]]]]>> :
        q \in UNION {[1..n -> SaveQuantities] : n \in 1..(MaxSabores + 1)}}

InitNormalize ==
    /\ products = <<>>
    /\ history = <<>>
    /\ nextId = 1
    /\ savePc = "idle"
    /\ posted \in NormalizeInputs
    /\ saveResponse = 0
    /\ saves = 0
    /\ listed = NotListed
    /\ lastRead = NoRead
    /\ categories = {}
    /\ coupons = {}
    /\ salesHistory = <<>>
    /\ NoOffice
    /\ Idle

Normalize ==
    /\ listed = NotListed
    /\ listed' = normalizeProducts(posted)
    /\ UNCHANGED <<products, history, pc, locals, nextId, savePc, posted,
                   saveResponse, saves, lastRead, officeVars>>

SpecNormalize == InitNormalize /\ [][Normalize]_vars

\* ------------------------------------------------- the other endpoints
\* ids of categories, codes and ids of coupons; "" is a body that lacks the
\* field
CategoryIds == {"brownie", "cookie"}
CategoryOrder == <<"brownie", "cookie", "default">>
CouponCodes == {"APP10", "PRIMEIRA"}
CouponOrder == <<"APP10", "PRIMEIRA">>
CouponIds == {"1", "2"}

Coupon(id, code) == [id |-> id, code |-> code]

\* a row of sales_history: whether it has customer_name / delivery_type
Sale(customer) == [customer |-> customer]

Access(table, op, outcome) == [table |-> table, op |-> op, outcome |-> outcome]

shopVars == <<products, history, pc, locals, adminVars>>

\* no handler is suspended at an await
Free ==
    /\ request.step = "done"
    /\ savePc = "idle"
    /\ \A p \in Procs : pc[p] \in {"idle", "done"}

\* a request arrives; step is the store call its handler issues first, or
\* "done" when it answers without one
Receives(endpoint, auth, arg, step) ==
    /\ Free
    /\ served < MaxRequests
    /\ served' = served + 1
    /\ request' = Request(endpoint, auth, arg, step)
    /\ accesses' = <<>>

Answers(status, success, message) == reply' = Reply(status, success, message, <<>>)

\* the store call the handler is suspended at returns
Returns(endpoint, step, table, op, outcome) ==
    /\ request.endpoint = endpoint
    /\ request.step = step
    /\ accesses' = Append(accesses, Access(table, op, outcome))
    /\ served' = served

Goes(step) == request' = [request EXCEPT !.step = step]

\* a handler that answers without a store call
AnswersAtOnce(endpoint, auth, arg, status, message) ==
    /\ Receives(endpoint, auth, arg, "done")
    /\ Answers(status, FALSE, message)

\* a handler that issues its first store call
Issues(endpoint, auth, arg, step) ==
    /\ Receives(endpoint, auth, arg, step)
    /\ reply' = NoReply

\* a head that looks at the body before the token
AdminHead_bodyFirst(endpoint, auth, arg, invalid, step) ==
    IF arg = ""
    THEN AnswersAtOnce(endpoint, auth, arg, 400, invalid)
    ELSE IF ~Authorized(auth)
         THEN AnswersAtOnce(endpoint, auth, arg, 401, "Nao autorizado")
         ELSE Issues(endpoint, auth, arg, step)

\* the head of every admin handler: 401 without the token, 400 for a body
\* that lacks what the handler needs, else the first store call
AdminHead(endpoint, auth, arg, invalid, step) ==
    IF ~Authorized(auth)
    THEN AnswersAtOnce(endpoint, auth, arg, 401, "Nao autorizado")
    ELSE IF arg = ""
         THEN AnswersAtOnce(endpoint, auth, arg, 400, invalid)
         ELSE Issues(endpoint, auth, arg, step)

\* the catch of an admin handler
Fails(message) == Goes("done") /\ Answers(500, FALSE, message)

Succeeds(message) == Goes("done") /\ Answers(200, TRUE, message)

\* POST /api/categories/add
PostCategoriesAdd ==
    /\ \E auth \in AuthHeaders : \E category \in CategoryIds \cup {""} :
        AdminHead("POST /api/categories/add", auth, category,
                  "Dados da categoria invalidos", "upsert")
    /\ UNCHANGED <<categories, coupons, salesHistory, shopVars>>

CategoriesAddUpsert ==
    /\ \E outcome \in {"ok", "error"} :
        /\ Returns("POST /api/categories/add", "upsert", "categories", "upsert", outcome)
        /\ IF outcome = "ok"
           THEN /\ categories' = categories \cup {request.arg}
                /\ Succeeds("Categoria adicionada")
           ELSE /\ categories' = categories
                /\ Fails("Erro ao adicionar categoria")
    /\ UNCHANGED <<coupons, salesHistory, shopVars>>

\* POST /api/coupons/add
PostCouponsAdd ==
    /\ \E auth \in AuthHeaders : \E code \in CouponCodes \cup {""} :
        AdminHead("POST /api/coupons/add", auth, code,
                  "Dados do cupom invalidos", "upsert")
    /\ UNCHANGED <<categories, coupons, salesHistory, shopVars>>

\* upsert on conflict of code: the row of that code is replaced and keeps
\* its id; a new row gets an id the table has not in use
CouponsAddUpsert ==
    /\ \E outcome \in {"ok", "error"} :
        /\ Returns("POST /api/coupons/add", "upsert", "coupons", "upsert", outcome)
        /\ IF outcome = "ok"
           THEN /\ IF \E c \in coupons : c.code = request.arg
                   THEN coupons' = coupons
                   ELSE \E id \in CouponIds \ {c.id : c \in coupons} :
                            coupons' = coupons \cup {Coupon(id, request.arg)}
                /\ Succeeds("Cupom adicionado")
           ELSE /\ coupons' = coupons
                /\ Fails("Erro ao adicionar cupom")
    /\ UNCHANGED <<categories, salesHistory, shopVars>>

\* a delete of coupons that asks for no token
PostCouponsDelete_open ==
    /\ \E auth \in AuthHeaders : \E couponId \in CouponIds \cup {""} :
        IF couponId = ""
        THEN AnswersAtOnce("POST /api/coupons/delete", auth, couponId, 400,
                           "ID do cupom e obrigatorio")
        ELSE Issues("POST /api/coupons/delete", auth, couponId, "delete")
    /\ UNCHANGED <<categories, coupons, salesHistory, shopVars>>

\* POST /api/coupons/delete
PostCouponsDelete ==
    /\ \E auth \in AuthHeaders : \E couponId \in CouponIds \cup {""} :
        AdminHead("POST /api/coupons/delete", auth, couponId,
                  "ID do cupom e obrigatorio", "delete")
    /\ UNCHANGED <<categories, coupons, salesHistory, shopVars>>

CouponsDelete ==
    /\ \E outcome \in {"ok", "error"} :
        /\ Returns("POST /api/coupons/delete", "delete", "coupons", "delete", outcome)
        /\ IF outcome = "ok"
           THEN /\ coupons' = {c \in coupons : c.id # request.arg}
                /\ Succeeds("Cupom excluido com sucesso!")
           ELSE /\ coupons' = coupons
                /\ Fails("Erro ao excluir cupom")
    /\ UNCHANGED <<categories, salesHistory, shopVars>>

\* POST /api/categories/delete
PostCategoriesDelete ==
    /\ \E auth \in AuthHeaders : \E categoryId \in CategoryIds \cup {"default", ""} :
        AdminHead("POST /api/categories/delete", auth, categoryId,
                  "ID da categoria e obrigatorio", "lookup")
    /\ UNCHANGED <<categories, coupons, salesHistory, shopVars>>

\* .from('products').select('id, title').eq('category', categoryId)
productsInCategory(categoryId) ==
    {k \in DOMAIN products : products[k].category = categoryId}

\* the select of the products of the category returns
CategoriesDeleteLookup ==
    /\ \E outcome \in {"ok", "error"} :
        /\ Returns("POST /api/categories/delete", "lookup", "products", "select", outcome)
        /\ IF outcome = "ok"
           THEN /\ IF productsInCategory(request.arg) # {}
                   THEN Goes("reassign")
                   ELSE Goes("delete")
                /\ reply' = reply
           ELSE Fails("Erro ao excluir categoria")
    /\ UNCHANGED <<categories, coupons, salesHistory, shopVars>>

\* .update({ category: 'default' }).eq('category', categoryId) returns
CategoriesDeleteReassign ==
    /\ \E outcome \in {"ok", "error"} :
        /\ Returns("POST /api/categories/delete", "reassign", "products", "update", outcome)
        /\ IF outcome = "ok"
           THEN /\ products' = [k \in DOMAIN products |->
                        IF products[k].category = request.arg
                        THEN [products[k] EXCEPT !.category = "default"]
                        ELSE products[k]]
                /\ Goes("delete")
                /\ reply' = reply
           ELSE /\ products' = products
                /\ Fails("Erro ao excluir categoria")
    /\ UNCHANGED <<categories, coupons, salesHistory, history, pc, locals, adminVars>>

\* the delete of the category row returns
CategoriesDeleteDelete ==
    /\ \E outcome \in {"ok", "error"} :
        /\ Returns("POST /api/categories/delete", "delete", "categories", "delete", outcome)
        /\ IF outcome = "ok"
           THEN /\ categories' = categories \ {request.arg}
                /\ Succeeds("Categoria excluida com sucesso!")
           ELSE /\ categories' = categories
                /\ Fails("Erro ao excluir categoria")
    /\ UNCHANGED <<coupons, salesHistory, shopVars>>

\* req.body.categories of POST /api/categories: absent or empty, one
\* category, two categories
CategoryLists == {"", "brownie", "brownie,cookie"}

\* normalizedCategories.map(cat => cat.id)
categoryIds(list) ==
    CASE list = "brownie" -> {"brownie"}
      [] list = "brownie,cookie" -> {"brownie", "cookie"}
      [] OTHER -> {}

\* POST /api/categories
PostCategories ==
    /\ \E auth \in AuthHeaders : \E list \in CategoryLists :
        AdminHead("POST /api/categories", auth, list,
                  "Nenhuma categoria fornecida", "prune")
    /\ UNCHANGED <<categories, coupons, salesHistory, shopVars>>

\* the delete of the rows whose id was not posted returns; an error that
\* says 'No rows found' is passed over
CategoriesPrune ==
    /\ \E outcome \in {"ok", "no rows", "error"} :
        /\ Returns("POST /api/categories", "prune", "categories", "delete", outcome)
        /\ IF outcome = "ok"
           THEN /\ categories' = categories \cap categoryIds(request.arg)
                /\ Goes("upsert")
                /\ reply' = reply
           ELSE /\ categories' = categories
                /\ IF outcome = "no rows"
                   THEN Goes("upsert") /\ reply' = reply
                   ELSE Fails("Erro ao salvar categorias")
    /\ UNCHANGED <<coupons, salesHistory, shopVars>>

CategoriesUpsert ==
    /\ \E outcome \in {"ok", "error"} :
        /\ Returns("POST /api/categories", "upsert", "categories", "upsert", outcome)
        /\ IF outcome = "ok"
           THEN /\ categories' = categories \cup categoryIds(request.arg)
                /\ Succeeds("categorias salvas")
           ELSE /\ categories' = categories
                /\ Fails("Erro ao salvar categorias")
    /\ UNCHANGED <<coupons, salesHistory, shopVars>>

\* req.body.saleData of POST /api/sales-history: absent or without date, a
\* sale, a sale with customerName and deliveryType
SaleInputs == {"", "sale", "sale of customer"}

\* POST /api/sales-history: no Authorization header is read
PostSalesHistory ==
    /\ \E auth \in AuthHeaders : \E saleData \in SaleInputs :
        IF saleData = ""
        THEN AnswersAtOnce("POST /api/sales-history", auth, saleData, 400,
                           "Dados invalidos")
        ELSE Issues("POST /api/sales-history", auth, saleData, "insert")
    /\ UNCHANGED <<categories, coupons, salesHistory, shopVars>>

\* a handler that tries the simple sale after any error of the first insert
SalesInsert_retriesAnyError ==
    /\ \E outcome \in {"ok", "column", "error", "throw"} :
        /\ Returns("POST /api/sales-history", "insert", "sales_history", "insert", outcome)
        /\ CASE outcome = "ok" ->
                    /\ salesHistory' = Append(salesHistory,
                                              Sale(request.arg = "sale of customer"))
                    /\ Succeeds("Venda registrada no historico")
             [] outcome \in {"column", "error"} ->
                    /\ salesHistory' = salesHistory
                    /\ Goes("insert simple")
                    /\ reply' = reply
             [] OTHER ->
                    /\ salesHistory' = salesHistory
                    /\ Succeeds("Pedido processado com sucesso")
    /\ UNCHANGED <<categories, coupons, shopVars>>

\* the insert of saleToSave returns: a row, an error whose message mentions
\* customer_name or delivery_type, another error, or the call throws
SalesInsert ==
    /\ \E outcome \in {"ok", "column", "error", "throw"} :
        /\ Returns("POST /api/sales-history", "insert", "sales_history", "insert", outcome)
        /\ CASE outcome = "ok" ->
                    /\ salesHistory' = Append(salesHistory,
                                              Sale(request.arg = "sale of customer"))
                    /\ Succeeds("Venda registrada no historico")
             [] outcome = "column" ->
                    /\ salesHistory' = salesHistory
                    /\ Goes("insert simple")
                    /\ reply' = reply
             [] OTHER ->
                    /\ salesHistory' = salesHistory
                    /\ Succeeds("Pedido processado com sucesso")
    /\ UNCHANGED <<categories, coupons, shopVars>>

\* the insert of simpleSale returns
SalesInsertSimple ==
    /\ \E outcome \in {"ok", "error", "throw"} :
        /\ Returns("POST /api/sales-history", "insert simple", "sales_history", "insert", outcome)
        /\ IF outcome = "ok"
           THEN /\ salesHistory' = Append(salesHistory, Sale(FALSE))
                /\ Succeeds("Venda registrada (sem dados do cliente)")
           ELSE /\ salesHistory' = salesHistory
                /\ Succeeds("Pedido processado com sucesso")
    /\ UNCHANGED <<categories, coupons, shopVars>>

\* POST /api/sales-history/reset: no Authorization header is read
PostSalesHistoryReset ==
    /\ \E auth \in AuthHeaders :
        Issues("POST /api/sales-history/reset", auth, "", "delete")
    /\ UNCHANGED <<categories, coupons, salesHistory, shopVars>>

\* .delete().neq('id', 0) returns
SalesReset ==
    /\ \E outcome \in {"ok", "error"} :
        /\ Returns("POST /api/sales-history/reset", "delete", "sales_history", "delete", outcome)
        /\ IF outcome = "ok"
           THEN /\ salesHistory' = <<>>
                /\ Succeeds("Historico de vendas limpo")
           ELSE /\ salesHistory' = salesHistory
                /\ Fails("Erro ao limpar historico")
    /\ UNCHANGED <<categories, coupons, shopVars>>

\* the hardcoded lists of GET /api/categories and GET /api/coupons
categoriasExemploSemTabela == <<"brownie", "cookie">>
categoriasExemplo == <<"brownie">>
cuponsExemploSemTabela == <<"APP10", "PRIMEIRA">>
cuponsExemplo == <<"APP10">>

\* a GET handler that answers every failed select with the example
Listing_exampleOnAnyError(outcome, rows, exemploSemTabela, exemplo) ==
    CASE outcome = "ok" -> IF Len(rows) = 0 THEN exemplo ELSE rows
      [] OTHER -> exemploSemTabela

\* what a GET handler answers for the outcome of its select
Listing(outcome, rows, exemploSemTabela, exemplo) ==
    CASE outcome = "ok" -> IF Len(rows) = 0 THEN exemplo ELSE rows
      [] outcome = "does not exist" -> exemploSemTabela
      [] OTHER -> <<>>

\* a GET handler: one select, one response with status 200
Gets(endpoint, table, outcome, data) ==
    /\ Free
    /\ served < MaxRequests
    /\ served' = served + 1
    /\ request' = Request(endpoint, "", "", "done")
    /\ accesses' = <<Access(table, "select", outcome)>>
    /\ lastRead' = Read(endpoint, outcome)
    /\ reply' = Reply(200, FALSE, "", data)
    /\ UNCHANGED <<categories, coupons, salesHistory, products, history, pc,
                   locals, nextId, savePc, posted, saveResponse, saves, listed>>

GetCategories ==
    \E outcome \in {"ok", "does not exist", "error"} :
        LET InTable(id) == id \in categories
        IN  Gets("GET /api/categories", "categories", outcome,
                 Listing(outcome, SelectSeq(CategoryOrder, InTable),
                         categoriasExemploSemTabela, categoriasExemplo))

GetCoupons ==
    \E outcome \in {"ok", "does not exist", "error"} :
        LET InTable(code) == \E c \in coupons : c.code = code
        IN  Gets("GET /api/coupons", "coupons", outcome,
                 Listing(outcome, SelectSeq(CouponOrder, InTable),
                         cuponsExemploSemTabela, cuponsExemplo))

\* what POST /api/products is sent here: no product, or one product in the
\* category cookie
OfficeSaves ==
    {<<>>,
     <<[title |-> Titles[2], category |-> "cookie",
        sabores |-> <<[name |-> SaborNames[1], quantity |-> N(1)]>>]>>}

\* POST /api/products, its request recorded with the others
PostProductsRecorded ==
    /\ \E auth \in AuthHeaders : \E body \in OfficeSaves :
        /\ PostProductsOf(auth, body)
        /\ Receives("POST /api/products", auth, "", "done")
    /\ reply' = NoReply
    /\ UNCHANGED <<categories, coupons, salesHistory>>

\* the order sent here: one unit of the first sabor of product 1
OfficeOrder == Body(TRUE, <<Item(N(1), N(0), N(1))>>)

\* two products, one in brownie and one in cookie
OfficeSaves2 ==
    LET p1 == [title |-> Titles[1], category |-> "brownie",
               sabores |-> <<[name |-> SaborNames[1], quantity |-> N(1)]>>]
        p2 == [title |-> Titles[2], category |-> "cookie",
               sabores |-> <<[name |-> SaborNames[1], quantity |-> N(1)]>>]
    IN  <<p1, p2>>

\* the other tables are all empty, or each has rows
OtherTables ==
    \/ categories = {} /\ coupons = {} /\ salesHistory = <<>>
    \/ /\ categories = {"brownie", "cookie"}
       /\ coupons = {Coupon("1", "APP10")}
       /\ salesHistory = <<Sale(TRUE)>>

InitOffice ==
    /\ products = productsToInsert(OfficeSaves2, 1)
    /\ OtherTables
    /\ Unvisited

\* one request at a time to any endpoint that reaches the store
NextOffice ==
    \/ PostCategoriesAdd
    \/ CategoriesAddUpsert
    \/ PostCouponsAdd
    \/ CouponsAddUpsert
    \/ PostCouponsDelete
    \/ CouponsDelete
    \/ PostCategoriesDelete
    \/ CategoriesDeleteLookup
    \/ CategoriesDeleteReassign
    \/ CategoriesDeleteDelete
    \/ PostCategories
    \/ CategoriesPrune
    \/ CategoriesUpsert
    \/ PostSalesHistory
    \/ SalesInsert
    \/ SalesInsertSimple
    \/ PostSalesHistoryReset
    \/ SalesReset
    \/ PostProductsRecorded
    \/ SaveDeleteOk
    \/ SaveDeleteError
    \/ SaveInsertOk
    \/ SaveInsertError

SpecOffice == InitOffice /\ [][NextOffice]_vars

\* the same, and one order between the requests
NextOpen ==
    \/ NextOffice
    \/ Free /\ PostUpdateStock(1, OfficeOrder)
    \/ StoreStep(1)

SpecOpen == InitOffice /\ [][NextOpen]_vars

\* ------------------------------------------------------- the GET handlers
\* the three listings, over tables that are empty or have rows
InitReads ==
    /\ products \in {<<>>, productsToInsert(OfficeSaves2, 1)}
    /\ categories \in {{}, {"brownie"}, {"brownie", "cookie"}}
    /\ coupons \in {{}, {Coupon("1", "APP10")},
                    {Coupon("1", "APP10"), Coupon("2", "PRIMEIRA")}}
    /\ salesHistory = <<>>
    /\ Unvisited

NextReads ==
    \/ GetProductsOk
    \/ GetProductsError
    \/ GetCategories
    \/ GetCoupons

SpecReads == InitReads /\ [][NextReads]_vars

\* ------------------------------------------------------------ properties
\* the request p has made the store call op with that outcome
Did(p, op, outcome) == \E i \in DOMAIN calls[p] : calls[p][i] = Call(op, outcome)

\* the in-memory phase of p has run (the select returned at least one row)
Computed(p) == Did(p, "select", "ok") /\ Len(currentProducts[p]) > 0

SnapshotIds(p) == {currentProducts[p][i].id : i \in DOMAIN currentProducts[p]}
Snapshot(p, k) ==
    currentProducts[p][CHOOSE i \in DOMAIN currentProducts[p] :
                            currentProducts[p][i].id = k]

\* a stored quantity as a count of halves; a missing quantity counts as 0
Stock(quantity) == IF quantity.t = "number" THEN quantity.v ELSE 0

Max0(n) == IF n > 0 THEN n ELSE 0

\* line j of the batch of p names sabor i (1-based) of the fetched product k
Targets(p, j, k, i) ==
    /\ items[p][j].id = N(k)
    /\ k \in SnapshotIds(p)
    /\ i \in 1..Len(Snapshot(p, k).sabores)
    /\ items[p][j].saborIndex = N(i - 1)

\* line j of the batch of p is the only line on its sabor
Alone(p, j, k, i) ==
    \A j2 \in DOMAIN items[p] : Targets(p, j2, k, i) => j2 = j

\* C1: every recorded change has newQuantity = max(0, oldQuantity - ordered),
\* which is never negative and is 0 when the order is at least the stock; a
\* line that is alone on its sabor leaves max(0, stock - ordered) in the
\* working copy, a missing stock counting as 0; and every quantity of a row
\* handed to the upsert that differs from the snapshot is >= 0.
C1_ClampedDecrement ==
    \A p \in Procs :
        /\ \A n \in DOMAIN updates[p] :
            LET u == updates[p][n]
            IN  /\ u.newQuantity = Num(Max0(u.oldQuantity.v - u.quantityOrdered.v))
                /\ u.newQuantity.v >= 0
                /\ u.quantityOrdered.v >= u.oldQuantity.v => u.newQuantity = Num(0)
        /\ Computed(p) =>
            \A j \in DOMAIN items[p] : \A k \in SnapshotIds(p) :
                \A i \in 1..Len(Snapshot(p, k).sabores) :
                    Targets(p, j, k, i) /\ Alone(p, j, k, i) =>
                        Stock(productsMap[p][k].sabores[i].quantity) =
                            Max0(Stock(Snapshot(p, k).sabores[i].quantity)
                                 - items[p][j].quantity.v)
        /\ \A n \in DOMAIN productsToUpdate[p] :
            LET row == productsToUpdate[p][n]
            IN  \A i \in DOMAIN row.sabores :
                    row.sabores[i] # Snapshot(p, row.id).sabores[i] =>
                        row.sabores[i].quantity.v >= 0

\* C1 witness: an order larger than the positive stock was clamped to 0 and
\* the row with that 0 is in the products table
C1_Witness ==
    \E p \in Procs :
        /\ pc[p] = "done"
        /\ Did(p, "upsert", "ok")
        /\ \E n \in DOMAIN updates[p] :
            LET u == updates[p][n]
            IN  /\ u.oldQuantity.v > 0
                /\ u.quantityOrdered.v > u.oldQuantity.v
                /\ u.newQuantity = Num(0)
                /\ \E i \in DOMAIN products[u.productId].sabores :
                    /\ products[u.productId].sabores[i].name = u.saborName
                    /\ products[u.productId].sabores[i].quantity = Num(0)

\* the upsert of p succeeded and carried a row for product k
Wrote(p, k) ==
    /\ Did(p, "upsert", "ok")
    /\ \E n \in DOMAIN productsToUpdate[p] : productsToUpdate[p][n].id = k
Written(p, k) ==
    productsToUpdate[p][CHOOSE n \in DOMAIN productsToUpdate[p] :
                            productsToUpdate[p][n].id = k]

\* p and q both read product k before either of them wrote it: they hold the
\* same snapshot of it (an upsert always changes the row it carries)
ReadBeforeEitherWrote(p, q, k) ==
    /\ p # q
    /\ k \in SnapshotIds(p) \cap SnapshotIds(q)
    /\ Snapshot(p, k) = Snapshot(q, k)

\* C2: when two requests read the same product before either wrote it and
\* both upserts succeeded, the stored row is the row of one of the two
\* writers, computed from the common snapshot alone: for a sabor both
\* decremented, the stored quantity is max(0, stock - q) for one of the two
\* ordered quantities q, not for their sum.
C2_LastUpsertWins ==
    \A p \in Procs : \A q \in Procs : \A k \in DOMAIN products :
        ReadBeforeEitherWrote(p, q, k) /\ Wrote(p, k) /\ Wrote(q, k) =>
            /\ products[k] \in {Written(p, k), Written(q, k)}
            /\ \A i \in DOMAIN Snapshot(p, k).sabores :
                \A jp \in DOMAIN items[p] : \A jq \in DOMAIN items[q] :
                    /\ Targets(p, jp, k, i) /\ Alone(p, jp, k, i)
                    /\ Targets(q, jq, k, i) /\ Alone(q, jq, k, i)
                    => Stock(products[k].sabores[i].quantity) \in
                        {Max0(Stock(Snapshot(p, k).sabores[i].quantity)
                              - items[p][jp].quantity.v),
                         Max0(Stock(Snapshot(p, k).sabores[i].quantity)
                              - items[q][jq].quantity.v)}

\* C2 witness: a lost update; both requests have finished, both decremented
\* the same sabor from the same snapshot, and the stored quantity is larger
\* than max(0, stock - q1 - q2)
C2_Witness ==
    \E p \in Procs : \E q \in Procs : \E k \in DOMAIN products :
        /\ ReadBeforeEitherWrote(p, q, k) /\ Wrote(p, k) /\ Wrote(q, k)
        /\ pc[p] = "done" /\ pc[q] = "done"
        /\ \E i \in DOMAIN Snapshot(p, k).sabores :
            /\ Targets(p, 1, k, i) /\ Targets(q, 1, k, i)
            /\ Stock(products[k].sabores[i].quantity) >
                Max0(Stock(Snapshot(p, k).sabores[i].quantity)
                     - items[p][1].quantity.v - items[q][1].quantity.v)

\* the fetched products whose working copy differs from the snapshot
Changed(p) == {k \in SnapshotIds(p) : productsMap[p][k] # Snapshot(p, k)}

UpsertCalls(p) == {i \in DOMAIN calls[p] : calls[p][i].op = "upsert"}

\* C3: the rows handed to the upsert are the working copies of exactly the
\* fetched products with a changed quantity, each once; these are the
\* products named by the updates list; a request makes at most one upsert;
\* and once the upsert has succeeded a fetched product without a change is
\* stored as it was read.
C3_UpsertIsTheChangedSet ==
    \A p \in Procs :
        Computed(p) =>
            /\ {productsToUpdate[p][n].id : n \in DOMAIN productsToUpdate[p]}
                    = Changed(p)
            /\ Len(productsToUpdate[p]) = Cardinality(Changed(p))
            /\ \A n \in DOMAIN productsToUpdate[p] :
                    productsToUpdate[p][n] = productsMap[p][productsToUpdate[p][n].id]
            /\ Changed(p) = {updates[p][n].productId : n \in DOMAIN updates[p]}
            /\ Cardinality(UpsertCalls(p)) <= 1
            /\ Did(p, "upsert", "ok") =>
                \A k \in SnapshotIds(p) \ Changed(p) : products[k] = Snapshot(p, k)

\* C3 witness: two products fetched, one of them changed, the upsert done
C3_Witness ==
    \E p \in Procs :
        /\ Computed(p)
        /\ Did(p, "upsert", "ok")
        /\ Cardinality(SnapshotIds(p)) = 2
        /\ Cardinality(Changed(p)) = 1
        /\ Len(productsToUpdate[p]) = 1

InsertFailed(p) == Did(p, "insert", "error") \/ Did(p, "insert", "throw")

\* the success result of a request that changed stock: one update per audit
\* record, one product per changed product
ChangedStockResult(p) ==
    Returned("Estoque atualizado", Len(stockUpdates[p]), Cardinality(Changed(p)))

\* C4: after a failed history insert (an error returned or thrown) the
\* request ends with the success result and the response that a successful
\* insert gives, without a manual-check flag; the rows written by the upsert
\* are in the products table as written, and no audit row exists.
C4_AuditFailureIsSilent ==
    \A p \in Procs :
        /\ Did(p, "insert", "ok") => result[p] = ChangedStockResult(p)
        /\ InsertFailed(p) =>
            /\ pc[p] = "done"
            /\ result[p] = ChangedStockResult(p)
            /\ response[p] = [status |-> 200, success |-> TRUE,
                              message |-> "Estoque atualizado",
                              updates |-> Len(stockUpdates[p]),
                              products |-> Cardinality(Changed(p)),
                              needs_manual_check |-> FALSE]
            /\ Did(p, "upsert", "ok")
            /\ \A k \in Changed(p) : products[k] = productsMap[p][k]
            /\ history = <<>>

\* C4 witness: the history insert failed after an upsert that changed a row
C4_Witness ==
    \E p \in Procs :
        /\ InsertFailed(p)
        /\ pc[p] = "done"
        /\ \E k \in Changed(p) : products[k] # Snapshot(p, k)

\* C5: a failed bulk select ends the request with a thrown error, the select
\* being its only store call, and the step changes no product row and no
\* audit row.
C5_ReadFailureAborts ==
    /\ [](\A p \in Procs :
            Did(p, "select", "error") =>
                /\ pc[p] = "done"
                /\ result[p].kind = "throw"
                /\ calls[p] = <<Call("select", "error")>>)
    /\ [][\A p \in Procs :
            ~Did(p, "select", "error") /\ Did(p, "select", "error")'
                => products' = products /\ history' = history]_vars

\* C5 witness: a request ended by a failed select
C5_Witness ==
    \E p \in Procs :
        /\ Did(p, "select", "error")
        /\ result[p] = Thrown("Erro ao buscar produtos")
        /\ history = <<>>

\* C6: a rejected bulk upsert ends the request with a thrown error and no
\* history insert is made; the products it read are stored as they were read
\* and there is no audit row.
C6_WriteFailureAborts ==
    \A p \in Procs :
        Did(p, "upsert", "error") =>
            /\ pc[p] = "done"
            /\ result[p].kind = "throw"
            /\ calls[p] = <<Call("select", "ok"), Call("upsert", "error")>>
            /\ \A k \in SnapshotIds(p) : products[k] = Snapshot(p, k)
            /\ history = <<>>

\* C6 witness: a request with a computed change ended by a rejected upsert
C6_Witness ==
    \E p \in Procs :
        /\ Did(p, "upsert", "error")
        /\ result[p] = Thrown("Erro ao atualizar produtos")
        /\ Changed(p) # {}

\* C7: every line that reaches updateStockForOrder through the handler has an
\* integer product id, an integer index and an integer quantity > 0.
C7_OnlyIntegerLines ==
    \A p \in Procs : \A j \in DOMAIN items[p] :
        /\ IsInteger(items[p][j].id)
        /\ IsInteger(items[p][j].saborIndex)
        /\ IsInteger(items[p][j].quantity)
        /\ items[p][j].quantity.v > 0

\* the batch without the lines whose position is in J
Without(its, J) ==
    LET Kept(j) == j \notin J
        idx == SelectSeq([j \in 1..Len(its) |-> j], Kept)
    IN  [n \in 1..Len(idx) |-> its[idx[n]]]

\* the working state of p is what the batch without the lines J computes
SameAsWithout(p, J) ==
    LET rest == Compute(currentProducts[p], Without(items[p], J))
    IN  /\ productsMap[p] = rest.map
        /\ updates[p] = rest.updates
        /\ stockUpdates[p] = rest.stockUpdates

\* every line outside J that is alone on a sabor with stock has its audit
\* record, and only a failed store call makes the request throw
OthersProcessed(p, J) ==
    /\ \A j \in DOMAIN items[p] \ J : \A k \in SnapshotIds(p) :
        \A i \in 1..Len(Snapshot(p, k).sabores) :
            /\ Targets(p, j, k, i) /\ Alone(p, j, k, i)
            /\ Stock(Snapshot(p, k).sabores[i].quantity) > 0
            => \E n \in DOMAIN stockUpdates[p] :
                /\ stockUpdates[p][n].product_id = k
                /\ stockUpdates[p][n].sabor_index = N(i - 1)
                /\ stockUpdates[p][n].quantity_ordered = items[p][j].quantity
    /\ result[p].kind = "throw" =>
        Did(p, "select", "error") \/ Did(p, "upsert", "error")

\* the product id of line j of p is not the id of a fetched product
UnknownProduct(p, j) == \A k \in SnapshotIds(p) : items[p][j].id # N(k)

\* C8: the lines whose product id is absent from the snapshot change
\* nothing: the working copy, the updates and the audit records are those
\* of the batch without these lines, no update or audit record names such an
\* id, none of them raises an error, and the other lines get their records.
C8_UnknownProductIsSkipped ==
    \A p \in Procs :
        Computed(p) =>
            LET J == {j \in DOMAIN items[p] : UnknownProduct(p, j)}
            IN  /\ SameAsWithout(p, J)
                /\ \A n \in DOMAIN stockUpdates[p] : \A j \in J :
                        N(stockUpdates[p][n].product_id) # items[p][j].id
                /\ Len(updates[p]) <= Len(items[p]) - Cardinality(J)
                /\ OthersProcessed(p, J)

\* C8 witness: a line on an unknown product followed by a line that changed
\* stock, the request answered with one update
C8_Witness ==
    \E p \in Procs :
        /\ Computed(p)
        /\ Len(items[p]) = 2
        /\ UnknownProduct(p, 1)
        /\ ~UnknownProduct(p, 2)
        /\ pc[p] = "done"
        /\ result[p] = Returned("Estoque atualizado", 1, 1)

\* the product of line j of p was fetched and the index of the line is an
\* integer outside [0, number of sabores)
OutOfRange(p, j) ==
    \E k \in SnapshotIds(p) :
        /\ items[p][j].id = N(k)
        /\ IsInteger(items[p][j].saborIndex)
        /\ \/ items[p][j].saborIndex.v < 0
           \/ items[p][j].saborIndex.v >= 2 * Len(Snapshot(p, k).sabores)

\* C9: the lines whose index is outside [0, number of sabores) of their
\* product, negative ones included, change nothing: the working state is
\* that of the batch without them, every audit record carries an index
\* inside the range, none of them raises an error, and the other lines get
\* their records.
C9_IndexOutOfRangeIsSkipped ==
    \A p \in Procs :
        Computed(p) =>
            LET J == {j \in DOMAIN items[p] : OutOfRange(p, j)}
            IN  /\ SameAsWithout(p, J)
                /\ \A n \in DOMAIN stockUpdates[p] :
                    LET r == stockUpdates[p][n]
                    IN  /\ IsInteger(r.sabor_index)
                        /\ r.sabor_index.v >= 0
                        /\ r.sabor_index.v < 2 * Len(Snapshot(p, r.product_id).sabores)
                /\ Len(stockUpdates[p]) <= Len(items[p]) - Cardinality(J)
                /\ OthersProcessed(p, J)

\* C9 witness: a line with a negative index is met by a request that
\* still changed stock with its other line
C9_Witness ==
    \E p \in Procs :
        /\ Computed(p)
        /\ Len(items[p]) = 2
        /\ OutOfRange(p, 1)
        /\ items[p][1].saborIndex.v < 0
        /\ ~OutOfRange(p, 2)
        /\ pc[p] = "done"
        /\ result[p] = Returned("Estoque atualizado", 1, 1)

\* every line of p that names a fetched sabor finds it at stock 0
NothingToTake(p) ==
    /\ Computed(p)
    /\ \A j \in DOMAIN items[p] : \A k \in SnapshotIds(p) :
        \A i \in 1..Len(Snapshot(p, k).sabores) :
            Targets(p, j, k, i) => Stock(Snapshot(p, k).sabores[i].quantity) = 0

\* C10: when every line leaves its quantity as it was, the request makes no
\* upsert and no history insert and its result reports updates = 0.
C10_NoChangeReportsZero ==
    \A p \in Procs :
        NothingToTake(p) =>
            /\ calls[p] = <<Call("select", "ok")>>
            /\ result[p].kind = "return"
            /\ result[p].updates = 0

\* no line of the batch of p names a product of the table
NoLineMatches(p) ==
    \A j \in DOMAIN items[p] : \A k \in DOMAIN products : items[p][j].id # N(k)

\* C11: when the bulk select succeeds and no line names a stored product,
\* updateStockForOrder returns the "no product found" success: the select is
\* its only store call (no upsert, no history insert), nothing is thrown, the
\* response is a plain success without the manual-check flag, and both
\* tables are left as they were.
C11_NoMatchingProduct ==
    /\ [](\A p \in Procs :
            Did(p, "select", "ok") /\ NoLineMatches(p) =>
                /\ pc[p] = "done"
                /\ calls[p] = <<Call("select", "ok")>>
                /\ result[p].kind = "return"
                /\ result[p].message = "Nenhum produto encontrado para atualizar"
                /\ response[p].status = 200
                /\ response[p].success
                /\ ~response[p].needs_manual_check)
    /\ [][\A p \in Procs :
            ~Did(p, "select", "ok") /\ Did(p, "select", "ok")' /\ NoLineMatches(p)'
                => products' = products /\ history' = history]_vars

\* C11 witness: a finished request whose single line names product 3, which
\* no catalogue has, after a successful select
C11_Witness ==
    \E p \in Procs :
        /\ pc[p] = "done"
        /\ Did(p, "select", "ok")
        /\ items[p] = <<Item(N(3), N(0), N(1))>>
        /\ NoLineMatches(p)
        /\ Len(currentProducts[p]) = 0

\* C12: updateStockForOrder called with an empty list makes no store call:
\* it has returned the "nothing to update" success as soon as it was entered,
\* and the call changes neither table.
C12_EmptyListIsNoOp ==
    /\ [](\A p \in Procs :
            pc[p] # "idle" /\ Len(items[p]) = 0 =>
                /\ pc[p] = "done"
                /\ calls[p] = <<>>
                /\ result[p] = Returned("Nenhum item para atualizar", -1, -1)
                /\ currentProducts[p] = <<>>
                /\ productsToUpdate[p] = <<>>
                /\ stockUpdates[p] = <<>>)
    /\ [][\A p \in Procs :
            pc[p] = "idle" /\ pc'[p] # "idle" /\ Len(items'[p]) = 0
                => products' = products /\ history' = history]_vars

\* C12 witness: the call with the empty list has returned, over a catalogue
\* that has stock to take
C12_Witness ==
    \E p \in Procs :
        /\ pc[p] = "done"
        /\ items[p] = <<>>
        /\ result[p].kind = "return"
        /\ \E k \in DOMAIN products : \E i \in DOMAIN products[k].sabores :
                Stock(products[k].sabores[i].quantity) > 0

\* the store calls of one invocation, in program order
CallSequence == <<"select", "upsert", "insert">>

\* the calls of p that have returned are the first calls of CallSequence,
\* each once, and only the last of them may have failed
InOrder(p) ==
    /\ Len(calls[p]) <= Len(CallSequence)
    /\ \A n \in DOMAIN calls[p] :
        /\ calls[p][n].op = CallSequence[n]
        /\ n < Len(calls[p]) => calls[p][n].outcome = "ok"

\* C13: the store calls of an invocation come in the order select, upsert,
\* history insert, each at most once and never again after a failure; the
\* upsert is issued only after a successful select that computed at least
\* one change, the history insert only after a successful upsert; the log of
\* returned calls only grows, one call at a time; and when the store calls
\* that were issued return, the invocation ends with a result or an error.
C13_CallOrderAndTermination ==
    /\ [](\A p \in Procs :
            /\ InOrder(p)
            /\ pc[p] = "select" => calls[p] = <<>>
            /\ pc[p] = "upsert" \/ UpsertCalls(p) # {} =>
                    Did(p, "select", "ok") /\ Len(updates[p]) > 0
            /\ pc[p] = "upsert" => Len(calls[p]) = 1
            /\ pc[p] = "insert" \/ Did(p, "insert", "ok") \/ InsertFailed(p) =>
                    Did(p, "upsert", "ok")
            /\ pc[p] = "insert" => Len(calls[p]) = 2
            /\ pc[p] = "done" => result[p].kind \in {"return", "throw"})
    /\ [][\A p \in Procs :
            \/ calls'[p] = calls[p]
            \/ /\ Len(calls'[p]) = Len(calls[p]) + 1
               /\ SubSeq(calls'[p], 1, Len(calls[p])) = calls[p]]_vars
    /\ \A p \in Procs : (pc[p] # "idle") ~> (pc[p] = "done")

\* C13 witness: an invocation that made all three calls and has returned
C13_Witness ==
    \E p \in Procs :
        /\ pc[p] = "done"
        /\ calls[p] = <<Call("select", "ok"), Call("upsert", "ok"),
                        Call("insert", "ok")>>
        /\ result[p].kind = "return"

\* what the lines before line j of the batch of p ordered of sabor i of
\* product k, in halves
RECURSIVE TakenBefore(_, _, _, _)
TakenBefore(p, j, k, i) ==
    IF j = 1 THEN 0
    ELSE TakenBefore(p, j - 1, k, i)
         + (IF Targets(p, j - 1, k, i) THEN items[p][j - 1].quantity.v ELSE 0)

\* line j of the batch of p lowers the quantity of a sabor of product k: it
\* names a sabor that still has stock when its turn comes
LineChanges(p, j, k) ==
    \E i \in 1..MaxSabores + 1 :
        /\ Targets(p, j, k, i)
        /\ Stock(Snapshot(p, k).sabores[i].quantity) > TakenBefore(p, j, k, i)

ChangingLines(p) ==
    {j \in DOMAIN items[p] : \E k \in SnapshotIds(p) : LineChanges(p, j, k)}
ChangedProducts(p) ==
    {k \in SnapshotIds(p) : \E j \in DOMAIN items[p] : LineChanges(p, j, k)}

\* C14: a successful invocation that changed stock reports, in its result
\* and in the response, updates = the number of lines that lowered a
\* quantity and products = the number of distinct products of those lines;
\* a batch of one line for less than the stock of its sabor reports 1 and 1
\* and leaves stock - ordered in the table.
C14_ResultCounts ==
    [] \A p \in Procs :
        pc[p] = "done" /\ Did(p, "upsert", "ok") =>
            /\ result[p].kind = "return"
            /\ result[p].updates = Cardinality(ChangingLines(p))
            /\ result[p].products = Cardinality(ChangedProducts(p))
            /\ response[p].success
            /\ response[p].updates = Cardinality(ChangingLines(p))
            /\ response[p].products = Cardinality(ChangedProducts(p))
            /\ \A k \in SnapshotIds(p) : \A i \in 1..Len(Snapshot(p, k).sabores) :
                    /\ Len(items[p]) = 1
                    /\ Targets(p, 1, k, i)
                    /\ IsInteger(items[p][1].quantity)
                    /\ Stock(Snapshot(p, k).sabores[i].quantity)
                            > items[p][1].quantity.v
                    => /\ result[p].updates = 1
                       /\ result[p].products = 1
                       /\ products[k].sabores[i].quantity =
                            Num(Stock(Snapshot(p, k).sabores[i].quantity)
                                - items[p][1].quantity.v)

\* C14 witness: one line for 1 of a sabor holding 2 has been processed:
\* updates = 1, products = 1, and 1 is stored
C14_Witness ==
    \E p \in Procs : \E k \in DOMAIN products :
        /\ pc[p] = "done"
        /\ Did(p, "upsert", "ok")
        /\ items[p] = <<Item(N(k), N(0), N(1))>>
        /\ k \in SnapshotIds(p)
        /\ Snapshot(p, k).sabores[1].quantity = N(2)
        /\ result[p].updates = 1
        /\ result[p].products = 1
        /\ products[k].sabores[1].quantity = N(1)

\* lines j1 and j2 of the batch of p lower two different sabores, i1 and i2,
\* of the fetched product k, and no other line names either sabor
TwoSaboresOfOne(p, j1, j2, k, i1, i2) ==
    /\ j1 # j2 /\ i1 # i2
    /\ Targets(p, j1, k, i1) /\ Alone(p, j1, k, i1)
    /\ Targets(p, j2, k, i2) /\ Alone(p, j2, k, i2)
    /\ Stock(Snapshot(p, k).sabores[i1].quantity) > 0
    /\ Stock(Snapshot(p, k).sabores[i2].quantity) > 0

\* C15: when two lines of one batch lower two different sabores of the same
\* product, the rows handed to the upsert hold that product exactly once,
\* with both new quantities in the one row; the upsert is called once; and
\* after it succeeded the stored row carries both new quantities.
C15_OneRowForTwoSabores ==
    [] \A p \in Procs :
        Computed(p) =>
            \A k \in SnapshotIds(p) :
                LET snap == Snapshot(p, k)
                    lines == {j \in DOMAIN items[p] : items[p][j].id = N(k)}
                    sabores == 1..Len(snap.sabores)
                IN  \A j1 \in lines : \A j2 \in lines : j1 < j2 =>
                    \A i1 \in sabores : \A i2 \in sabores :
        TwoSaboresOfOne(p, j1, j2, k, i1, i2) =>
            LET new1 == Num(Max0(Stock(snap.sabores[i1].quantity)
                                 - items[p][j1].quantity.v))
                new2 == Num(Max0(Stock(snap.sabores[i2].quantity)
                                 - items[p][j2].quantity.v))
            IN  /\ Cardinality({n \in DOMAIN productsToUpdate[p] :
                                    productsToUpdate[p][n].id = k}) = 1
                /\ Written(p, k).sabores[i1].quantity = new1
                /\ Written(p, k).sabores[i2].quantity = new2
                /\ Cardinality(UpsertCalls(p)) = (IF pc[p] = "upsert" THEN 0 ELSE 1)
                /\ Did(p, "upsert", "ok") =>
                    /\ products[k] = Written(p, k)
                    /\ products[k].sabores[i1].quantity = new1
                    /\ products[k].sabores[i2].quantity = new2

\* C15 witness: a finished batch of two lines, for 1 of each of the first two
\* sabores of product 1, both in stock; the stored row has both decrements
C15_Witness ==
    \E p \in Procs :
        /\ pc[p] = "done"
        /\ Did(p, "upsert", "ok")
        /\ items[p] = <<Item(N(1), N(0), N(1)), Item(N(1), N(1), N(1))>>
        /\ TwoSaboresOfOne(p, 1, 2, 1, 1, 2)
        /\ Len(productsToUpdate[p]) = 1
        /\ \A i \in 1..2 :
                Stock(products[1].sabores[i].quantity) =
                    Stock(Snapshot(p, 1).sabores[i].quantity) - 2

\* the body received by p had at least one line that passed the filter
HadValidLine(p) == pc[p] # "idle" /\ Len(items[p]) > 0

\* C16: a select or upsert failure makes updateStockForOrder throw, and the
\* handler answers the throw with status 200, success = true and
\* needs_manual_check = true; the flag is set for no other outcome; so every
\* finished request that had a valid line is answered with a success,
\* whatever the store calls returned.
C16_FailureAnsweredAsSuccess ==
    [] \A p \in Procs :
        /\ Did(p, "select", "error") \/ Did(p, "upsert", "error") =>
            /\ pc[p] = "done"
            /\ result[p].kind = "throw"
            /\ response[p].status = 200
            /\ response[p].success
            /\ response[p].needs_manual_check
        /\ response[p].needs_manual_check => result[p].kind = "throw"
        /\ pc[p] = "done" /\ HadValidLine(p) =>
            /\ response[p].status = 200
            /\ response[p].success

\* C16 witness: a request whose upsert was rejected has been answered with
\* the flagged success
C16_Witness ==
    \E p \in Procs :
        /\ pc[p] = "done"
        /\ HadValidLine(p)
        /\ calls[p] = <<Call("select", "ok"), Call("upsert", "error")>>
        /\ response[p].status = 200
        /\ response[p].success
        /\ response[p].needs_manual_check

\* the audit row r records a change that a successful upsert of p carried:
\* it is one of the audit records p computed, for a quantity that p lowered,
\* and the row of its product was among the rows p upserted
AuditedByUpsert(p, r) ==
    /\ Did(p, "upsert", "ok")
    /\ Did(p, "insert", "ok")
    /\ \E m \in DOMAIN stockUpdates[p] :
        /\ stockUpdates[p][m] = r
        /\ updates[p][m].productId = r.product_id
        /\ updates[p][m].newQuantity = r.new_stock
    /\ r.new_stock.v < r.old_stock.v
    /\ Wrote(p, r.product_id)
    /\ \E i \in DOMAIN Written(p, r.product_id).sabores :
        /\ N(i - 1) = r.sabor_index
        /\ Written(p, r.product_id).sabores[i].quantity.v <= r.new_stock.v

\* C17: the table stock_updates_history only grows at its end: every step
\* keeps the rows it had, unchanged and in place; and every row it holds is
\* an audit record of a request whose upsert succeeded and carried that
\* row's change.
C17_AuditAppendOnly ==
    /\ [][/\ Len(history') >= Len(history)
          /\ SubSeq(history', 1, Len(history)) = history]_vars
    /\ [](\A n \in DOMAIN history :
             \E p \in Procs : AuditedByUpsert(p, history[n]))

\* C17 witness: two requests have each added their audit row; both rows are
\* in the table, the earlier one first
C17_Witness ==
    /\ Len(history) = 2
    /\ \E p \in Procs : \E q \in Procs :
        /\ p # q
        /\ pc[p] = "done" /\ pc[q] = "done"
        /\ history = stockUpdates[p] \o stockUpdates[q]
        /\ AuditedByUpsert(p, history[1])
        /\ AuditedByUpsert(q, history[2])
        /\ history[1].product_id = history[2].product_id
        /\ history[1].sabor_index = history[2].sabor_index

\* C18: every sabor quantity in the products table and every sabor quantity
\* of a GET /api/products response is an integer that is not negative.
C18_QuantitiesNeverNegative ==
    /\ \A k \in DOMAIN products : \A i \in DOMAIN products[k].sabores :
        /\ IsInteger(products[k].sabores[i].quantity)
        /\ products[k].sabores[i].quantity.v >= 0
    /\ \A n \in DOMAIN listed : \A i \in DOMAIN listed[n].sabores :
        /\ IsInteger(listed[n].sabores[i].quantity)
        /\ listed[n].sabores[i].quantity.v >= 0

\* the sabores given to normalizeProducts and the sabores it returned
SaboresIn == posted[1].sabores
SaboresOut == listed[1].sabores

\* the position in the input of the sabor at position i of the output
\* (names are distinct in the input)
Origin(i) == CHOOSE j \in DOMAIN SaboresIn : SaboresIn[j].name = SaboresOut[i].name

\* C19: the sabores returned by normalizeProducts are the input sabores in
\* another order: as many, each input sabor once; every sabor with a
\* quantity > 0 comes before every sabor with quantity 0; and two sabores
\* that both have a quantity > 0, or both have quantity 0, keep their input
\* order.
C19_StablePartition ==
    listed # NotListed =>
        /\ Len(SaboresOut) = Len(SaboresIn)
        /\ \A j \in DOMAIN SaboresIn :
                Cardinality({i \in DOMAIN SaboresOut :
                                SaboresOut[i].name = SaboresIn[j].name}) = 1
        /\ \A i \in DOMAIN SaboresOut :
                SaboresOut[i].quantity = OrZero(SaboresIn[Origin(i)].quantity)
        /\ \A i \in DOMAIN SaboresOut : \A j \in DOMAIN SaboresOut :
            /\ SaboresOut[i].quantity.v > 0 /\ SaboresOut[j].quantity.v = 0
                    => i < j
            /\ /\ i < j
               /\ \/ SaboresOut[i].quantity.v > 0 /\ SaboresOut[j].quantity.v > 0
                  \/ SaboresOut[i].quantity.v = 0 /\ SaboresOut[j].quantity.v = 0
               => Origin(i) < Origin(j)

\* no line of the batch of p names sabor i of the fetched product k
Untouched(p, k, i) == \A j \in DOMAIN items[p] : ~Targets(p, j, k, i)

\* p and q read product k before either wrote it, both upserts succeeded, p
\* lowered sabor ip only and q lowered another sabor, iq, only
DifferentSabores(p, q, k, ip, iq) ==
    /\ ReadBeforeEitherWrote(p, q, k) /\ Wrote(p, k) /\ Wrote(q, k)
    /\ ip # iq
    /\ Targets(p, 1, k, ip) /\ Targets(q, 1, k, iq)
    /\ Len(items[p]) = 1 /\ Len(items[q]) = 1

\* C20: a successful upsert stores the whole row of each product it carries:
\* a sabor that the request did not touch is written back with the quantity
\* of the request's snapshot, whatever the table held; so when two requests
\* that read the same row lowered different sabores of it, the stored row is
\* the row of one of them and the decrement of the other is undone: its
\* sabor holds the snapshot quantity again.
C20_StaleRowWrittenBack ==
    /\ [][\A p \in Procs :
            pc[p] = "upsert" /\ Did(p, "upsert", "ok")' =>
                \A n \in DOMAIN productsToUpdate[p] :
                    LET row == productsToUpdate[p][n]
                    IN  /\ products'[row.id] = row
                        /\ \A i \in DOMAIN row.sabores :
                            Untouched(p, row.id, i) =>
                                products'[row.id].sabores[i] =
                                    Snapshot(p, row.id).sabores[i]]_vars
    /\ [](\A p \in Procs : \A q \in Procs : \A k \in DOMAIN products :
            \A ip \in 1..MaxSabores : \A iq \in 1..MaxSabores :
                DifferentSabores(p, q, k, ip, iq) =>
                    /\ products[k] \in {Written(p, k), Written(q, k)}
                    /\ \/ products[k].sabores[ip] = Snapshot(p, k).sabores[ip]
                       \/ products[k].sabores[iq] = Snapshot(p, k).sabores[iq])

\* C20 witness: both requests have finished; p stored a lower quantity for
\* its sabor, then q wrote its row, and the sabor of p holds the quantity of
\* the snapshot again, more than p had stored
C20_Witness ==
    \E p \in Procs : \E q \in Procs : \E k \in DOMAIN products :
        \E ip \in 1..MaxSabores : \E iq \in 1..MaxSabores :
            /\ DifferentSabores(p, q, k, ip, iq)
            /\ pc[p] = "done" /\ pc[q] = "done"
            /\ products[k] = Written(q, k)
            /\ products[k].sabores[ip] = Snapshot(p, k).sabores[ip]
            /\ Stock(products[k].sabores[ip].quantity)
                    > Stock(Written(p, k).sabores[ip].quantity)

\* the last GET /api/products response lists the table as it is now
ListedNow == listed # NotListed /\ DOMAIN products # {}
             /\ listed = normalizeProducts(RowsById(products))

\* C21: the sabor at a position of a listed product is the sabor at that
\* position of the stored row, the one updateStockForOrder reaches with that
\* saborIndex.
C21_ListedIndexIsStoredIndex ==
    ListedNow =>
        \A n \in DOMAIN listed : \A i \in DOMAIN listed[n].sabores :
            listed[n].sabores[i].name = products[listed[n].id].sabores[i].name

\* the lines of the batch of p on sabor i of the fetched product k
LinesOn(p, k, i) == {j \in DOMAIN items[p] : Targets(p, j, k, i)}

\* the positions of the audit records of p for sabor i of product k
RecordsOn(p, k, i) ==
    {n \in DOMAIN stockUpdates[p] :
        /\ stockUpdates[p][n].product_id = k
        /\ stockUpdates[p][n].sabor_index = N(i - 1)}

\* C23: when several lines of a batch name the same sabor, the working copy
\* holds max(0, stock - sum of their quantities); the sabor has one update
\* and one audit record for each of these lines that found stock left, none
\* for a line that came after the stock reached 0; each audit record starts
\* at the stock the one before it left; and the product is in the rows
\* handed to the upsert exactly once.
C23_SameSaborIsCumulative ==
    [] \A p \in Procs :
        Computed(p) =>
            \A k \in SnapshotIds(p) : \A i \in 1..Len(Snapshot(p, k).sabores) :
                LET lines == LinesOn(p, k, i)
                    records == RecordsOn(p, k, i)
                    stock == Stock(Snapshot(p, k).sabores[i].quantity)
                    total == TakenBefore(p, Len(items[p]) + 1, k, i)
                IN  Cardinality(lines) >= 2 =>
                    /\ Stock(productsMap[p][k].sabores[i].quantity)
                            = Max0(stock - total)
                    /\ Cardinality(records)
                            = Cardinality({j \in lines :
                                            stock > TakenBefore(p, j, k, i)})
                    /\ \A n \in records :
                        /\ updates[p][n].productId = k
                        /\ updates[p][n].oldQuantity = stockUpdates[p][n].old_stock
                        /\ updates[p][n].newQuantity = stockUpdates[p][n].new_stock
                    /\ \A n \in records : \A m \in records :
                        /\ n < m
                        /\ \A x \in records : ~(n < x /\ x < m)
                        => stockUpdates[p][m].old_stock = stockUpdates[p][n].new_stock
                    /\ \A n \in records :
                        (\A x \in records : n <= x) =>
                            stockUpdates[p][n].old_stock = Num(stock)
                    /\ records # {} /\ pc[p] # "select" =>
                        Cardinality({n \in DOMAIN productsToUpdate[p] :
                                        productsToUpdate[p][n].id = k}) = 1

\* C23 witness: two lines for 1 of the same sabor holding 2 have been
\* written: two audit records, 2 -> 1 and 1 -> 0, and 0 is stored
C23_Witness ==
    \E p \in Procs :
        /\ pc[p] = "done"
        /\ Did(p, "upsert", "ok")
        /\ items[p] = <<Item(N(1), N(0), N(1)), Item(N(1), N(0), N(1))>>
        /\ Len(stockUpdates[p]) = 2
        /\ stockUpdates[p][1].old_stock = N(2)
        /\ stockUpdates[p][1].new_stock = N(1)
        /\ stockUpdates[p][2].old_stock = N(1)
        /\ stockUpdates[p][2].new_stock = N(0)
        /\ products[1].sabores[1].quantity = N(0)
        /\ Len(productsToUpdate[p]) = 1

\* a request that is about to write has a line that resolves to sabor i of
\* product k
WriterTargets(k, i) ==
    \E p \in Procs :
        /\ pc[p] = "upsert"
        /\ k \in SnapshotIds(p)
        /\ \E j \in DOMAIN items[p] : Targets(p, j, k, i)

\* C25: with one request at a time, every step keeps the rows of the
\* products table and, in each row, the id, the title (which stands for
\* title, price, description, status and display order), the category, the
\* number and order of the sabores and their names; a quantity changes only
\* in a sabor that a line of the writing request resolves to; and a quantity
\* that was >= 0 is not larger afterwards.
C25_OnlyTargetedQuantitiesChange ==
    [][/\ DOMAIN products' = DOMAIN products
       /\ \A k \in DOMAIN products :
            /\ products'[k].id = products[k].id
            /\ products'[k].title = products[k].title
            /\ products'[k].category = products[k].category
            /\ Len(products'[k].sabores) = Len(products[k].sabores)
            /\ \A i \in DOMAIN products[k].sabores :
                /\ products'[k].sabores[i].name = products[k].sabores[i].name
                /\ products'[k].sabores[i].quantity # products[k].sabores[i].quantity
                        => WriterTargets(k, i)
                /\ Stock(products[k].sabores[i].quantity) >= 0 =>
                        Stock(products'[k].sabores[i].quantity)
                            <= Stock(products[k].sabores[i].quantity)]_vars

\* C25 witness: a catalogue of two products; one line took stock from the
\* first sabor of product 1; its second sabor and product 2 are as they were
\* read
C25_Witness ==
    \E p \in Procs :
        /\ pc[p] = "done"
        /\ Did(p, "upsert", "ok")
        /\ items[p] = <<Item(N(1), N(0), N(1))>>
        /\ DOMAIN products = {1, 2}
        /\ Len(products[1].sabores) = 2
        /\ Stock(products[1].sabores[1].quantity)
                < Stock(Snapshot(p, 1).sabores[1].quantity)
        /\ products[1].sabores[2] = Snapshot(p, 1).sabores[2]
        /\ Stock(products[1].sabores[2].quantity) > 0
        /\ products[1].title = Snapshot(p, 1).title

\* C24: when the upsert of an order is applied after a save has deleted the
\* row the order had read, the row is in the table again under its old id,
\* with the contents of the order's working copy: the title and the sabores
\* of the snapshot, a sabor no line resolved to with the quantity that was
\* read, the others with the quantity the order computed from it.
C24_DeletedRowComesBack ==
    [][\A p \in Procs :
        pc[p] = "upsert" /\ pc'[p] = "insert" =>
            \A n \in DOMAIN productsToUpdate[p] :
                LET row == productsToUpdate[p][n]
                IN  row.id \notin DOMAIN products =>
                        /\ row.id \in SnapshotIds(p)
                        /\ row.id \in DOMAIN products'
                        /\ products'[row.id] = row
                        /\ row.title = Snapshot(p, row.id).title
                        /\ Len(row.sabores) = Len(Snapshot(p, row.id).sabores)
                        /\ \A i \in DOMAIN row.sabores :
                            /\ row.sabores[i].name
                                    = Snapshot(p, row.id).sabores[i].name
                            /\ IF TakenBefore(p, Len(items[p]) + 1, row.id, i) = 0
                               THEN row.sabores[i].quantity
                                        = Snapshot(p, row.id).sabores[i].quantity
                               ELSE Stock(row.sabores[i].quantity)
                                        = Max0(Stock(Snapshot(p, row.id).sabores[i].quantity)
                                               - TakenBefore(p, Len(items[p]) + 1, row.id, i))]_vars

\* C24 witness: the order read row 1, a second save deleted it and inserted
\* its product as row 2, and the order's upsert has put row 1 back
C24_Witness ==
    /\ pc[1] \in {"insert", "done"}
    /\ Did(1, "upsert", "ok")
    /\ saves = 2
    /\ savePc = "idle"
    /\ saveResponse = 200
    /\ DOMAIN products = {1, 2}
    /\ SnapshotIds(1) = {1}
    /\ products[1] = productsToUpdate[1][1]
    /\ products[1].title = Snapshot(1, 1).title

\* C26: a save is not atomic. When its delete has succeeded the table is
\* empty before anything is inserted; when the insert then fails the save is
\* answered 500, nothing is inserted, and the table is empty unless the
\* upsert of an order has written meanwhile. When the delete fails the save
\* is answered 500, the table is as it was and no insert is issued.
C26_SaveIsNotAtomic ==
    [][/\ savePc = "delete" /\ savePc' = "insert" => products' = <<>>
       /\ savePc = "insert" /\ saveResponse' = 500 =>
            /\ products' = products
            /\ nextId' = nextId
            /\ savePc' = "idle"
            /\ ~Did(1, "upsert", "ok") => products' = <<>>
       /\ savePc = "delete" /\ saveResponse' = 500 =>
            /\ products' = products
            /\ nextId' = nextId
            /\ savePc' = "idle"]_vars

\* C26 witness: a first save stored a product as row 1; the second save
\* deleted it, its insert failed, and the table is empty
C26_Witness ==
    /\ saves = 2
    /\ nextId = 2
    /\ savePc = "idle"
    /\ saveResponse = 500
    /\ products = <<>>
    /\ pc[1] = "idle"

\* the select of the last GET handler failed
ReadFailed == lastRead.outcome \in {"does not exist", "error"}

\* the list the last GET handler answered with
Answered ==
    IF lastRead.endpoint = "GET /api/products" THEN listed ELSE reply.data

\* the hardcoded list a GET handler has for a table that does not exist
ExemploSemTabela ==
    CASE lastRead.endpoint = "GET /api/products" -> produtosExemploSemTabela
      [] lastRead.endpoint = "GET /api/categories" -> categoriasExemploSemTabela
      [] OTHER -> cuponsExemploSemTabela

AdminEndpoints ==
    {"POST /api/products", "POST /api/categories", "POST /api/categories/add",
     "POST /api/categories/delete", "POST /api/coupons/add",
     "POST /api/coupons/delete"}

\* the status the request was answered with (0: not answered yet)
Status ==
    IF request.endpoint = "POST /api/products" THEN saveResponse ELSE reply.status

\* C27: when a request to one of the six admin endpoints arrives, whatever
\* its body and whatever the tables hold: if its Authorization header with
\* 'Bearer ' removed is not the admin token, the handler answers 401 at once,
\* issues no store call and leaves every table as it is; if it is the
\* token, the answer is not 401.
C27_TokenDecidesAlone ==
    [][served' = served + 1 /\ request'.endpoint \in AdminEndpoints =>
        IF StripBearer(request'.auth) = "authenticated_admin_token"
        THEN Status' # 401
        ELSE /\ Status' = 401
             /\ request'.step = "done"
             /\ savePc' = "idle"
             /\ accesses' = <<>>
             /\ products' = products
             /\ categories' = categories
             /\ coupons' = coupons
             /\ salesHistory' = salesHistory
             /\ history' = history]_vars

\* C27 witness: a request to delete a category that is in the table, sent
\* with a wrong token, was answered 401 and the row is still there
C27_Witness ==
    /\ request.endpoint = "POST /api/categories/delete"
    /\ request.auth = "Bearer wrong"
    /\ request.arg \in categories
    /\ reply.status = 401
    /\ accesses = <<>>

\* the step deletes or replaces a stored row, or a store call that deletes,
\* updates or upserts has succeeded in it
Destroys ==
    \/ \E k \in DOMAIN products : k \notin DOMAIN products' \/ products'[k] # products[k]
    \/ ~(categories \subseteq categories')
    \/ ~(coupons \subseteq coupons')
    \/ Len(salesHistory') < Len(salesHistory)
    \/ \E i \in DOMAIN salesHistory : i \in DOMAIN salesHistory' /\ salesHistory'[i] # salesHistory[i]
    \/ \E i \in DOMAIN history : i \notin DOMAIN history' \/ history'[i] # history[i]
    \/ /\ Len(accesses') = Len(accesses) + 1
       /\ accesses'[Len(accesses')].op \in {"delete", "update", "upsert"}
       /\ accesses'[Len(accesses')].outcome = "ok"

\* the step belongs to a request that carried the admin token
ByAdmin ==
    /\ request.endpoint \in AdminEndpoints
    /\ StripBearer(request.auth) = "authenticated_admin_token"
    /\ request.step # "done" \/ savePc # "idle"

\* C28: POST /api/sales-history/reset issues its delete whatever the
\* Authorization header is, and the delete removes every row of
\* sales_history; the upsert of POST /api/orders/update-stock, which reads no
\* header, rewrites product rows; and every other step that deletes or
\* replaces a stored row belongs to a request that carried the admin token.
C28_OpenDestructiveEndpoints ==
    [][/\ served' = served + 1 /\ request'.endpoint = "POST /api/sales-history/reset"
            => request'.step = "delete"
       /\ (/\ request.endpoint = "POST /api/sales-history/reset"
           /\ request.step = "delete"
           /\ reply'.status = 200)
            => salesHistory' = <<>>
       /\ pc[1] = "upsert" /\ pc'[1] = "insert" => products' # products
       /\ Destroys =>
            \/ ByAdmin
            \/ request.endpoint = "POST /api/sales-history/reset"
                    /\ request.step = "delete"
            \/ pc[1] = "upsert"]_vars

\* C28 witness: a reset sent without a header has emptied sales_history,
\* which had a row
C28_Witness ==
    /\ request.endpoint = "POST /api/sales-history/reset"
    /\ request.auth = ""
    /\ reply.status = 200
    /\ accesses = <<Access("sales_history", "delete", "ok")>>
    /\ salesHistory = <<>>
    /\ served = 1
    /\ categories # {}

\* the inserts of the request that succeeded
InsertedBy(log) == {i \in DOMAIN log : log[i].outcome = "ok"}

\* C29: a POST /api/sales-history whose saleData has a date issues at most
\* two inserts into sales_history and nothing else, the second only after
\* the first failed with a message that mentions customer_name or
\* delivery_type; each successful insert adds one row and at most one
\* succeeds; whatever the store answers, the response is 200 with success
\* true. Without saleData or date the response is 400 and no store call is
\* issued.
C29_SaleIsAlwaysAcknowledged ==
    /\ [](request.endpoint = "POST /api/sales-history" =>
            IF request.arg = ""
            THEN /\ request.step = "done"
                 /\ reply.status = 400
                 /\ ~reply.success
                 /\ accesses = <<>>
            ELSE /\ Len(accesses) <= 2
                 /\ \A i \in DOMAIN accesses :
                        accesses[i].table = "sales_history" /\ accesses[i].op = "insert"
                 /\ Len(accesses) = 2 => accesses[1].outcome = "column"
                 /\ Cardinality(InsertedBy(accesses)) <= 1
                 /\ request.step # "done" =>
                        (accesses = <<>> \/ accesses[1].outcome = "column")
                 /\ request.step = "done" =>
                        /\ accesses # <<>>
                        /\ reply.status = 200
                        /\ reply.success)
    /\ [][(/\ request'.endpoint = "POST /api/sales-history"
           /\ served' = served + 1 \/ request.step # "done") =>
            /\ products' = products
            /\ categories' = categories
            /\ coupons' = coupons
            /\ SubSeq(salesHistory', 1, Len(salesHistory)) = salesHistory
            /\ Len(salesHistory') =
                    IF /\ served' = served
                       /\ Len(accesses') = Len(accesses) + 1
                       /\ accesses'[Len(accesses')].outcome = "ok"
                    THEN Len(salesHistory) + 1
                    ELSE Len(salesHistory)]_vars

\* C29 witness: a sale with customer data; the first insert failed on the
\* customer columns, the second stored the sale without them, and the
\* response says so
C29_Witness ==
    /\ request = Request("POST /api/sales-history", "", "sale of customer", "done")
    /\ accesses = <<Access("sales_history", "insert", "column"),
                    Access("sales_history", "insert", "ok")>>
    /\ reply = Reply(200, TRUE, "Venda registrada (sem dados do cliente)", <<>>)
    /\ Len(salesHistory) > 0
    /\ salesHistory[Len(salesHistory)] = Sale(FALSE)

\* the request is a POST /api/categories/delete that passed the token and
\* body checks
DeletingCategory ==
    request.endpoint = "POST /api/categories/delete" /\ accesses # <<>>

\* C30: POST /api/categories/delete deletes the category row only after the
\* lookup of its products has succeeded and, when there were products, after
\* they were re-assigned to 'default'; when the lookup or the re-assignment
\* fails the response is 500 and the category row is not deleted; and, with
\* one request at a time, after a successful response no product row has the
\* deleted id as its category.
C30_CategoryDeletedLast ==
    /\ []((request.endpoint = "POST /api/categories/delete" /\ request.step = "delete") =>
            /\ Len(accesses) \in {1, 2}
            /\ accesses[1] = Access("products", "select", "ok")
            /\ (Len(accesses) = 2 => accesses[2] = Access("products", "update", "ok"))
            /\ (Len(accesses) = 1 => productsInCategory(request.arg) = {}))
    /\ []((/\ DeletingCategory
           /\ \E i \in DOMAIN accesses :
                accesses[i].table = "products" /\ accesses[i].outcome = "error") =>
            /\ request.step = "done"
            /\ reply.status = 500
            /\ \A i \in DOMAIN accesses : accesses[i].table # "categories")
    /\ [][(/\ request.endpoint = "POST /api/categories/delete"
           /\ request.step # "done"
           /\ categories' # categories) =>
            (request.step = "delete" /\ reply'.status = 200)]_vars
    /\ []((DeletingCategory /\ request.step = "done" /\ reply.status = 200) =>
            /\ request.arg \notin categories
            /\ productsInCategory(request.arg) = {})

====
